---- MODULE Spec2Model ----
(***************************************************************************)
(* Model of the multiminesweeper engine: the logical solver                *)
(* (src/src/engine/solver.ts), the Game class (src/src/engine/game.ts)     *)
(* and mine placement (src/src/engine/board.ts).                           *)
(*                                                                         *)
(* Representation notes.                                                   *)
(*  - A position is the pair <<row, col>>, rows and columns 0-based.       *)
(*  - Arrays are sequences, so variable ids, equation indexes and          *)
(*    component-local indexes are 1-based here and 0-based in the source.  *)
(*  - A nullable number (CellView.hint, CellView.mineCount) is a sequence  *)
(*    of length 0 (null) or 1.                                             *)
(*  - A Map<number, number> is a function; a missing key reads as absent   *)
(*    through the DOMAIN test, as Map.get/Map.has do.                      *)
(***************************************************************************)
EXTENDS Integers, Sequences, FiniteSets, TLC

\* ------------------------------------------------------------------ bounds
\* Board size of every game and snapshot explored.
Rows == 1
Cols == 4
\* Largest maxMinesPerCell explored (the source allows 1..6).
MaxPerCell == 2
\* Largest explicit maxSearchNodes explored, besides the default.
MaxBudget == 3
\* Largest sum of |mineCount| over the board of a snapshot.
MaxMines == 2
\* Largest number of flagged cells in a snapshot.
MaxMarked == 1
\* Wrong markers plus overstated totals of an initial snapshot.
MaxFaults == 1
\* Largest minesTotal of a game configuration.
MaxMinesTotal == 4
\* Largest minesTotal of a configuration whose cells can hold several mines.
MaxStackedTotal == 2
\* Largest maxMinesPerCell and minesTotal handed to placeMines on its own.
MaxCapInput == 7
MaxPlaceTotal == 7

\* --------------------------------------------------------- program constants
DEFAULT_MAX_SEARCH_NODES == 5000000
MIN_COMPONENT_NODES == 200000
DEFAULT_MAX_STEPS == 200
DEFAULT_MAX_CYCLES == 200
DEFAULT_MAX_LOGICAL_STEPS == 300

\* ------------------------------------------------------------------ helpers
Null == <<>>
Some(x) == <<x>>
IsNull(o) == Len(o) = 0
Val(o) == o[1]

Min2(a, b) == IF a <= b THEN a ELSE b
Max2(a, b) == IF a >= b THEN a ELSE b
Abs(x) == IF x < 0 THEN -x ELSE x

RECURSIVE SeqSum(_)
SeqSum(s) == IF Len(s) = 0 THEN 0 ELSE Head(s) + SeqSum(Tail(s))

Range(s) == {s[i] : i \in 1..Len(s)}

\* Sorted sequence (ascending) of a finite set of integers.
RECURSIVE SortedSeq(_)
SortedSeq(S) ==
  IF S = {} THEN <<>>
  ELSE LET m == CHOOSE x \in S : \A y \in S : x <= y
       IN  <<m>> \o SortedSeq(S \ {m})

\* Index of the first occurrence of x in s, 0 when absent.
IndexOf(s, x) ==
  IF \E i \in 1..Len(s) : s[i] = x
  THEN CHOOSE i \in 1..Len(s) : s[i] = x /\ \A j \in 1..(i - 1) : s[j] # x
  ELSE 0

\* All positions of the board in row-major order (the nested r, c loops).
PosSeq == [i \in 1..(Rows * Cols) |-> <<(i - 1) \div Cols, (i - 1) % Cols>>]
AllPos == Range(PosSeq)

\* f with the value at key k replaced by v.
Put(f, k, v) == [x \in DOMAIN f |-> IF x = k THEN v ELSE f[x]]

\* The grid g with one field of the cell at p replaced.
WithOpened(g, p) == Put(g, p, [g[p] EXCEPT !.opened = TRUE])
WithMarker(g, p, v) == Put(g, p, [g[p] EXCEPT !.markerCount = v])

\* ----------------------------------------------------------------- solver.ts
\* The eight planar neighbours, in the order of the dr, dc loops.
neighbours(row, col, rows, cols) ==
  LET deltas == << <<-1, -1>>, <<-1, 0>>, <<-1, 1>>, <<0, -1>>,
                   <<0, 1>>, <<1, -1>>, <<1, 0>>, <<1, 1>> >>
      cand == [i \in 1..8 |-> <<row + deltas[i][1], col + deltas[i][2]>>]
  IN  SelectSeq(cand, LAMBDA p : p[1] >= 0 /\ p[1] < rows /\ p[2] >= 0 /\ p[2] < cols)

buildDomain(min, max) == [i \in 1..(max - min + 1) |-> min + i - 1]

buildNonZeroValues(min, max) == SelectSeq(buildDomain(min, max), LAMBDA v : v # 0)

\* totals: Null when the caller passes no groupTotals, else Some(f) with f a
\* function from the listed groups to their totals.
buildGroupTotals(nonZeroValues, totals) ==
  [g \in Range(nonZeroValues) \cup (IF IsNull(totals) THEN {} ELSE DOMAIN Val(totals)) |->
     IF ~IsNull(totals) /\ g \in DOMAIN Val(totals) THEN Val(totals)[g] ELSE 0]

\* Sum of the values of a map.
RECURSIVE sumMapValues(_)
sumMapValues(map) ==
  IF DOMAIN map = {} THEN 0
  ELSE LET k == CHOOSE x \in DOMAIN map : TRUE
       IN  map[k] + sumMapValues([x \in DOMAIN map \ {k} |-> map[x]])

MapGet(map, k, dflt) == IF k \in DOMAIN map THEN map[k] ELSE dflt

allGroupsFixed(mins, maxs, groups) ==
  \A i \in 1..Len(groups) : mins[groups[i]] = maxs[groups[i]]

\* The loop returns null at the first group whose count is non-zero and is not
\* the first one equal to total; found is the only group seen before, if any.
RECURSIVE exactSingleGroupFrom(_, _, _, _, _)
exactSingleGroupFrom(counts, groups, total, i, found) ==
  IF i > Len(groups) THEN found
  ELSE LET c == MapGet(counts, groups[i], 0)
       IN  IF c = 0 THEN exactSingleGroupFrom(counts, groups, total, i + 1, found)
           ELSE IF c = total /\ IsNull(found)
                THEN exactSingleGroupFrom(counts, groups, total, i + 1, Some(groups[i]))
                ELSE Null

\* Fault: no group is ever found to take all the free cells.
exactSingleGroup_Never(counts, groups, total) == Null

exactSingleGroup(counts, groups, total) ==
  exactSingleGroupFrom(counts, groups, total, 1, Null)

uniqueSorted(values) == SortedSeq(Range(values))

Reason(msg, args) == [msg |-> msg, args |-> args]
NoReason == Reason("", <<>>)

\* ---- buildState (solver.ts 453-539)
IsUnknown(cells, p) == ~cells[p].opened /\ cells[p].markerCount = 0

unknownPositionsOf(cells) == SelectSeq(PosSeq, LAMBDA p : IsUnknown(cells, p))

\* Fault: flagged cells are not counted as fixed.
FixedKey_OpenedOnly(cells, p) ==
  IF ~cells[p].opened THEN Null
  ELSE IF ~IsNull(cells[p].mineCount) /\ Val(cells[p].mineCount) # 0
       THEN cells[p].mineCount ELSE Null

\* Key of the fixedCounts map a cell adds to, Null when it adds to none.
FixedKey(cells, p) ==
  IF ~cells[p].opened
  THEN IF cells[p].markerCount # 0 THEN Some(cells[p].markerCount) ELSE Null
  ELSE IF ~IsNull(cells[p].mineCount) /\ Val(cells[p].mineCount) # 0
       THEN cells[p].mineCount ELSE Null

fixedCountsOf(cells) ==
  LET keys == {Val(FixedKey(cells, p)) : p \in {q \in AllPos : ~IsNull(FixedKey(cells, q))}}
  IN  [v \in keys |-> Cardinality({p \in AllPos : FixedKey(cells, p) = Some(v)})]

\* The equation of one opened hint cell: its unknown neighbours and the hint
\* minus the opened and flagged neighbours.
EquationAt(cells, unknown, p) ==
  LET nb == neighbours(p[1], p[2], Rows, Cols)
      fixed(n) == IF cells[n].opened
                  THEN IF IsNull(cells[n].mineCount) THEN 0 ELSE Val(cells[n].mineCount)
                  ELSE cells[n].markerCount
      fixedSum == SeqSum([i \in 1..Len(nb) |-> fixed(nb[i])])
      varPos == SelectSeq(nb, LAMBDA n : IsUnknown(cells, n))
  IN  [vars |-> [i \in 1..Len(varPos) |-> IndexOf(unknown, varPos[i])],
       target |-> Val(cells[p].hint) - fixedSum,
       pos |-> p]

buildState(input, groupTotals) ==
  LET cells == input.cells
      fixedCounts == fixedCountsOf(cells)
      hintCells == SelectSeq(PosSeq, LAMBDA p : cells[p].opened /\ ~IsNull(cells[p].hint))
      \* fixedCounts keys in insertion order: the row-major scan
      keyCells == SelectSeq(PosSeq, LAMBDA p : ~IsNull(FixedKey(cells, p)))
      missing == SelectSeq(keyCells, LAMBDA p :
                   Val(FixedKey(cells, p)) # 0 /\ Val(FixedKey(cells, p)) \notin DOMAIN Val(groupTotals))
      state(unknownPositions, bad, equations) ==
        LET varUsed(v) == \E i \in 1..Len(equations) : v \in Range(equations[i].vars)
            ids == [i \in 1..Len(unknownPositions) |-> i]
        IN  [contradiction |->
               IF Len(bad) > 0
               THEN Some(Reason("Hint contradiction at cell.", bad[1].pos))
               ELSE IF ~IsNull(groupTotals) /\ Len(missing) > 0
                    THEN Some(Reason("Group is not present in visible totals.",
                                     <<Val(FixedKey(cells, missing[1]))>>))
                    ELSE Null,
             unknownPositions |-> unknownPositions,
             equations |-> [i \in 1..Len(equations) |->
                              [vars |-> equations[i].vars, target |-> equations[i].target]],
             fixedCounts |-> fixedCounts,
             freeVarIndices |-> {v \in Range(ids) : ~varUsed(v)},
             constrainedVarIndices |-> SelectSeq(ids, LAMBDA v : varUsed(v))]
      \* all: one equation per opened hint cell, those without variables included
      split(unknownPositions, all) ==
        state(unknownPositions,
              SelectSeq(all, LAMBDA e : Len(e.vars) = 0 /\ e.target # 0),
              SelectSeq(all, LAMBDA e : Len(e.vars) > 0))
      scan(unknownPositions) ==
        split(unknownPositions,
              [i \in 1..Len(hintCells) |-> EquationAt(cells, unknownPositions, hintCells[i])])
  IN  scan(unknownPositionsOf(cells))

\* ---- inferForcedByBounds (solver.ts 643-717)
\* One equation of the sweep: the sums are taken once, then every variable of
\* the equation is pruned against them.
PruneEquation(domains, eq) ==
  LET vars == eq.vars
      minSum == SeqSum([i \in 1..Len(vars) |-> domains[vars[i]][1]])
      maxSum == SeqSum([i \in 1..Len(vars) |-> domains[vars[i]][Len(domains[vars[i]])]])
      pruned(v) ==
        LET d == domains[v]
            lo == eq.target - (maxSum - d[Len(d)])
            hi == eq.target - (minSum - d[1])
        IN  SelectSeq(d, LAMBDA x : x >= lo /\ x <= hi)
  IN  IF \E i \in 1..Len(vars) : Len(domains[vars[i]]) = 0
      THEN [contradiction |-> TRUE, domains |-> domains, changed |-> FALSE,
            reason |-> Reason("A constrained cell has no possible values.", <<>>)]
      ELSE IF eq.target < minSum \/ eq.target > maxSum
      THEN [contradiction |-> TRUE, domains |-> domains, changed |-> FALSE,
            reason |-> Reason("Visible hints are contradictory.", <<>>)]
      ELSE IF \E i \in 1..Len(vars) : Len(pruned(vars[i])) = 0
      THEN [contradiction |-> TRUE, domains |-> domains, changed |-> FALSE,
            reason |-> Reason("Domain pruning found no valid value for a cell.", <<>>)]
      ELSE [contradiction |-> FALSE,
            domains |-> [v \in DOMAIN domains |->
                           IF v \in Range(vars) THEN pruned(v) ELSE domains[v]],
            changed |-> \E i \in 1..Len(vars) : Len(pruned(vars[i])) # Len(domains[vars[i]]),
            reason |-> NoReason]

\* for (const eq of equations) of one pass of the while loop.
RECURSIVE Sweep(_, _, _, _)
Sweep(domains, equations, i, changed) ==
  IF i > Len(equations)
  THEN [contradiction |-> FALSE, domains |-> domains, changed |-> changed, reason |-> NoReason]
  ELSE LET next(r) == IF r.contradiction THEN r
                      ELSE Sweep(r.domains, equations, i + 1, changed \/ r.changed)
       IN  next(PruneEquation(domains, equations[i]))

\* while (changed)
RECURSIVE Propagate(_, _)
Propagate(domains, equations) ==
  LET again(r) == IF r.contradiction \/ ~r.changed THEN r
                  ELSE Propagate(r.domains, equations)
  IN  again(Sweep(domains, equations, 1, FALSE))

\* forced is the sequence of <<varId, value>> in Map insertion order.
inferForcedByBounds(constrainedVarIndices, equations, allowedValues) ==
  LET domains == [v \in Range(constrainedVarIndices) |-> allowedValues]
      \* after the while loop, r: the last sweep
      collect(r) ==
        LET single == SelectSeq(constrainedVarIndices, LAMBDA v : Len(r.domains[v]) = 1)
        IN  IF r.contradiction
            THEN [forced |-> <<>>, domains |-> r.domains, contradiction |-> TRUE,
                  reason |-> r.reason]
            ELSE [forced |-> [i \in 1..Len(single) |-> <<single[i], r.domains[single[i]][1]>>],
                  domains |-> r.domains, contradiction |-> FALSE, reason |-> NoReason]
  IN  IF Len(constrainedVarIndices) = 0 \/ Len(equations) = 0
      THEN [forced |-> <<>>, domains |-> domains, contradiction |-> FALSE, reason |-> NoReason]
      ELSE collect(Propagate(domains, equations))

\* ---- solveComponentExactly (solver.ts 805-968)
\* ctx: n, eqVars (local indexes per equation), targets, domains, varToEq,
\* maxNodes.  st: assign (Null = unassigned), nodes, complete, solutions, seen.
UnassignedIn(ctx, st, ei) ==
  SelectSeq(ctx.eqVars[ei], LAMBDA vi : IsNull(st.assign[vi]))

\* eqAssigned[ei]: the sum of the values assigned to the equation's variables.
AssignedSum(ctx, st, ei) ==
  LET vs == ctx.eqVars[ei]
  IN  SeqSum([k \in 1..Len(vs) |-> IF IsNull(st.assign[vs[k]]) THEN 0 ELSE Val(st.assign[vs[k]])])

DomMin(ctx, vi) == ctx.domains[vi][1]
DomMax(ctx, vi) == ctx.domains[vi][Len(ctx.domains[vi])]

CompEqFeasible(ctx, st, ei) ==
  LET rem == ctx.targets[ei] - AssignedSum(ctx, st, ei)
      un == UnassignedIn(ctx, st, ei)
      minSum == SeqSum([k \in 1..Len(un) |-> DomMin(ctx, un[k])])
      maxSum == SeqSum([k \in 1..Len(un) |-> DomMax(ctx, un[k])])
  IN  rem >= minSum /\ rem <= maxSum

canPlace(ctx, st, vi, val) ==
  \A j \in 1..Len(ctx.varToEq[vi]) :
    LET ei == ctx.varToEq[vi][j]
        rem == ctx.targets[ei] - (AssignedSum(ctx, st, ei) + val)
        others == SelectSeq(UnassignedIn(ctx, st, ei), LAMBDA ov : ov # vi)
        minSum == SeqSum([k \in 1..Len(others) |-> DomMin(ctx, others[k])])
        maxSum == SeqSum([k \in 1..Len(others) |-> DomMax(ctx, others[k])])
    IN  ~(rem < minSum \/ rem > maxSum)

\* The first unassigned variable with the most equations.
pickVar(ctx, st) ==
  LET un == {i \in 1..ctx.n : IsNull(st.assign[i])}
      score(i) == Len(ctx.varToEq[i])
  IN  CHOOSE i \in un : \A j \in un : score(j) < score(i) \/ (score(j) = score(i) /\ i <= j)

RECURSIVE CompDfs(_, _)
RECURSIVE CompTry(_, _, _, _)
CompDfs(ctx, st) ==
  LET s1 == [st EXCEPT !.nodes = @ + 1]
  IN  IF s1.nodes > ctx.maxNodes THEN [s1 EXCEPT !.complete = FALSE]
      ELSE IF \E ei \in 1..Len(ctx.eqVars) : ~CompEqFeasible(ctx, s1, ei) THEN s1
      ELSE IF \A i \in 1..ctx.n : ~IsNull(s1.assign[i])
      THEN [s1 EXCEPT !.solutions = @ + 1,
                      !.seen = [i \in 1..ctx.n |-> @[i] \cup {Val(s1.assign[i])}]]
      ELSE CompTry(ctx, s1, pickVar(ctx, s1), 1)

\* for (const v of compDomains[vi]), from the k-th value on.
CompTry(ctx, st, vi, k) ==
  IF k > Len(ctx.domains[vi]) THEN st
  ELSE IF ~canPlace(ctx, st, vi, ctx.domains[vi][k]) THEN CompTry(ctx, st, vi, k + 1)
  ELSE LET s2 == CompDfs(ctx, [st EXCEPT !.assign[vi] = Some(ctx.domains[vi][k])])
           s3 == [s2 EXCEPT !.assign[vi] = Null]
       IN  IF ~s3.complete THEN s3 ELSE CompTry(ctx, s3, vi, k + 1)

\* The search of one component (solver.ts 805-948): the local equations, the
\* counters at their initial values, then dfs(); the result is the state the
\* search leaves.
componentSearch(compVars, compEqIdx, equations, compDomains, maxNodes) ==
  LET n == Len(compVars)
      localEqVars == [e \in 1..Len(compEqIdx) |->
                        LET vs == SelectSeq(equations[compEqIdx[e]].vars,
                                            LAMBDA v : IndexOf(compVars, v) # 0)
                        IN  [k \in 1..Len(vs) |-> IndexOf(compVars, vs[k])]]
      eqIds == [e \in 1..Len(compEqIdx) |-> e]
      begin(ctx) ==
        CompDfs(ctx, [assign |-> [i \in 1..n |-> Null], nodes |-> 0, complete |-> TRUE,
                      solutions |-> 0, seen |-> [i \in 1..n |-> {}]])
  IN  begin([n |-> n,
             eqVars |-> localEqVars,
             targets |-> [e \in 1..Len(compEqIdx) |-> equations[compEqIdx[e]].target],
             domains |-> compDomains,
             varToEq |-> [vi \in 1..n |->
                            SelectSeq(eqIds, LAMBDA e : vi \in Range(localEqVars[e]))],
             maxNodes |-> maxNodes])

\* Fault: the values seen are reported as forced even when the enumeration
\* was cut off.
solveComponentExactly_ForceUnfinished(compVars, compEqIdx, equations, compDomains, maxNodes) ==
  IF \E i \in 1..Len(compDomains) : Len(compDomains[i]) = 0
  THEN [forced |-> <<>>, contradiction |-> TRUE, complete |-> TRUE,
        reason |-> Reason("No values are allowed by global totals.", <<>>)]
  ELSE
  LET n == Len(compVars)
      \* after dfs(), fin: the search state it left
      outcome(fin) ==
        LET ones == SelectSeq([i \in 1..n |-> i], LAMBDA i : Cardinality(fin.seen[i]) = 1)
        IN  IF fin.solutions = 0
            THEN [forced |-> <<>>, contradiction |-> TRUE, complete |-> fin.complete,
                  reason |-> Reason("Local constraints are contradictory.", <<>>)]
            ELSE [forced |-> [k \in 1..Len(ones) |->
                                <<compVars[ones[k]], CHOOSE x \in fin.seen[ones[k]] : TRUE>>],
                  contradiction |-> FALSE, complete |-> fin.complete, reason |-> NoReason]
  IN  outcome(componentSearch(compVars, compEqIdx, equations, compDomains, maxNodes))

solveComponentExactly(compVars, compEqIdx, equations, compDomains, maxNodes) ==
  IF \E i \in 1..Len(compDomains) : Len(compDomains[i]) = 0
  THEN [forced |-> <<>>, contradiction |-> TRUE, complete |-> TRUE,
        reason |-> Reason("No values are allowed by global totals.", <<>>)]
  ELSE
  LET n == Len(compVars)
      \* after dfs(), fin: the search state it left
      outcome(fin) ==
        LET ones == SelectSeq([i \in 1..n |-> i], LAMBDA i : Cardinality(fin.seen[i]) = 1)
        IN  IF fin.solutions = 0
            THEN [forced |-> <<>>, contradiction |-> TRUE, complete |-> fin.complete,
                  reason |-> Reason("Local constraints are contradictory.", <<>>)]
            ELSE [forced |-> IF fin.complete
                             THEN [k \in 1..Len(ones) |->
                                     <<compVars[ones[k]], CHOOSE x \in fin.seen[ones[k]] : TRUE>>]
                             ELSE <<>>,
                  contradiction |-> FALSE, complete |-> fin.complete, reason |-> NoReason]
  IN  outcome(componentSearch(compVars, compEqIdx, equations, compDomains, maxNodes))

\* ---- inferForcedFromComponents (solver.ts 737-803)
\* cs: queue, visited, compVars, compEqs of the component being collected.
RECURSIVE VisitVars(_, _, _)
VisitVars(cs, vars, i) ==
  IF i > Len(vars) THEN cs
  ELSE VisitVars(IF vars[i] \in cs.visited THEN cs
                 ELSE [cs EXCEPT !.visited = @ \cup {vars[i]}, !.queue = Append(@, vars[i])],
                 vars, i + 1)

RECURSIVE VisitEqs(_, _, _, _)
VisitEqs(cs, eqs, equations, i) ==
  IF i > Len(eqs) THEN cs
  ELSE IF eqs[i] \in Range(cs.compEqs) THEN VisitEqs(cs, eqs, equations, i + 1)
  ELSE VisitEqs(VisitVars([cs EXCEPT !.compEqs = Append(@, eqs[i])],
                          equations[eqs[i]].vars, 1),
                eqs, equations, i + 1)

\* while (queue.length > 0), queue.pop() taking the last element.
RECURSIVE CollectComponent(_, _, _)
CollectComponent(cs, eqByVar, equations) ==
  IF Len(cs.queue) = 0 THEN cs
  ELSE LET v == cs.queue[Len(cs.queue)]
           cs1 == [cs EXCEPT !.queue = SubSeq(@, 1, Len(@) - 1),
                             !.compVars = Append(@, v)]
       IN  CollectComponent(VisitEqs(cs1, eqByVar[v], equations, 1), eqByVar, equations)

\* for (const startVar of constrainedVarIndices), from the i-th on.
RECURSIVE ComponentsFrom(_, _, _, _, _, _, _)
ComponentsFrom(vars, i, visited, acc, equations, domains, maxNodes) ==
  IF i > Len(vars) THEN acc
  ELSE IF vars[i] \in visited
  THEN ComponentsFrom(vars, i + 1, visited, acc, equations, domains, maxNodes)
  ELSE
  LET eqIds == [e \in 1..Len(equations) |-> e]
      eqByVar == [v \in Range(vars) |-> SelectSeq(eqIds, LAMBDA e : v \in Range(equations[e].vars))]
      \* cs: the component collected, local: what solveComponentExactly found
      merge(cs, local) ==
        IF local.contradiction
        THEN [forced |-> <<>>, contradiction |-> TRUE, complete |-> local.complete,
              reason |-> local.reason]
        ELSE ComponentsFrom(vars, i + 1, cs.visited,
                            [acc EXCEPT !.forced = @ \o local.forced,
                                        !.complete = @ /\ local.complete],
                            equations, domains, maxNodes)
      solve(cs) ==
        merge(cs, solveComponentExactly(
                    cs.compVars, cs.compEqs, equations,
                    [k \in 1..Len(cs.compVars) |-> MapGet(domains, cs.compVars[k], <<>>)],
                    maxNodes))
  IN  solve(CollectComponent([queue |-> <<vars[i]>>, visited |-> visited \cup {vars[i]},
                              compVars |-> <<>>, compEqs |-> <<>>], eqByVar, equations))

inferForcedFromComponents(constrainedVarIndices, equations, domains, maxNodesPerComponent) ==
  IF Len(constrainedVarIndices) = 0 \/ Len(equations) = 0
  THEN [forced |-> <<>>, contradiction |-> FALSE, complete |-> TRUE, reason |-> NoReason]
  ELSE ComponentsFrom(constrainedVarIndices, 1, {},
                      [forced |-> <<>>, contradiction |-> FALSE, complete |-> TRUE,
                       reason |-> NoReason],
                      equations, domains, maxNodesPerComponent)

\* ---- solveLogically (solver.ts 46-451)
Result(opens, marks, stalled, contradiction, reason, complete) ==
  [opens |-> opens, marks |-> marks, stalled |-> stalled,
   contradiction |-> contradiction, reason |-> reason, complete |-> complete]

\* Fault: every forced cell reported as an open, whatever its forced value.
ForcedOpens_AnyValue(forced, unknownPositions) ==
  [i \in 1..Len(forced) |-> unknownPositions[forced[i][1]]]

\* The forced map of a pass as opens and marks (solver.ts 134-149, 167-183).
ForcedOpens(forced, unknownPositions) ==
  LET z == SelectSeq(forced, LAMBDA f : f[2] = 0)
  IN  [i \in 1..Len(z) |-> unknownPositions[z[i][1]]]

\* Fault: every forced cell reported as a mark, the cells forced to 0 too.
ForcedMarks_WithZeros(forced, unknownPositions) ==
  [i \in 1..Len(forced) |-> [pos |-> unknownPositions[forced[i][1]], value |-> forced[i][2]]]

\* Fault: only the positive forced values reported as marks.
ForcedMarks_PositiveOnly(forced, unknownPositions) ==
  LET nz == SelectSeq(forced, LAMBDA f : f[2] > 0)
  IN  [i \in 1..Len(nz) |-> [pos |-> unknownPositions[nz[i][1]], value |-> nz[i][2]]]

ForcedMarks(forced, unknownPositions) ==
  LET nz == SelectSeq(forced, LAMBDA f : f[2] # 0)
  IN  [i \in 1..Len(nz) |-> [pos |-> unknownPositions[nz[i][1]], value |-> nz[i][2]]]

\* Fault: the totals-only deduction without the branch of a remaining count 0.
solveOnlyFromGlobalCounts_NoOpens(unknownPositions, remainingCounts, nonZeroValues, freeCount) ==
  LET nonZeroRemaining == sumMapValues(remainingCounts)
      exact == exactSingleGroup(remainingCounts, nonZeroValues, freeCount)
      marks == IF nonZeroRemaining # 0 /\ nonZeroRemaining = freeCount /\ ~IsNull(exact)
               THEN [i \in 1..Len(unknownPositions) |->
                       [pos |-> unknownPositions[i], value |-> Val(exact)]]
               ELSE <<>>
  IN  Result(<<>>, marks, Len(marks) = 0, FALSE, NoReason, TRUE)

solveOnlyFromGlobalCounts(unknownPositions, remainingCounts, nonZeroValues, freeCount) ==
  LET nonZeroRemaining == sumMapValues(remainingCounts)
      exact == exactSingleGroup(remainingCounts, nonZeroValues, freeCount)
      opens == IF nonZeroRemaining = 0 THEN unknownPositions ELSE <<>>
      marks == IF nonZeroRemaining # 0 /\ nonZeroRemaining = freeCount /\ ~IsNull(exact)
               THEN [i \in 1..Len(unknownPositions) |->
                       [pos |-> unknownPositions[i], value |-> Val(exact)]]
               ELSE <<>>
  IN  Result(opens, marks, Len(opens) = 0 /\ Len(marks) = 0, FALSE, NoReason, TRUE)

\* The whole-board search (solver.ts 198-389).  ctx: n (constrainedCount),
\* eqVars, targets, domains, varToEq, maxNodes, useGlobalCounts, freeCount,
\* nonZeroValues.  st: assign, searchNodes, aborted, solutionCount, seenValues,
\* remMin, remMax (Null until the first solution), remCounts.
assignedCountOf(ctx, st) == Cardinality({i \in 1..ctx.n : ~IsNull(st.assign[i])})

groupFeasible(ctx, st) ==
  IF ctx.useGlobalCounts
  THEN LET capacity == (ctx.n - assignedCountOf(ctx, st)) + ctx.freeCount
           nz == ctx.nonZeroValues
       IN  /\ \A i \in 1..Len(nz) : ~(st.remCounts[nz[i]] < 0) /\ ~(st.remCounts[nz[i]] > capacity)
           /\ ~(SeqSum([i \in 1..Len(nz) |-> st.remCounts[nz[i]]]) > capacity)
  ELSE TRUE

eqFeasible(ctx, st, eqi) ==
  LET remTarget == ctx.targets[eqi] - AssignedSum(ctx, st, eqi)
      un == UnassignedIn(ctx, st, eqi)
      minSum == SeqSum([k \in 1..Len(un) |-> DomMin(ctx, un[k])])
      maxSum == SeqSum([k \in 1..Len(un) |-> DomMax(ctx, un[k])])
  IN  remTarget >= minSum /\ remTarget <= maxSum

candidateFeasible(ctx, st, vi, val) ==
  \A j \in 1..Len(ctx.varToEq[vi]) :
    LET eqi == ctx.varToEq[vi][j]
        remTarget == ctx.targets[eqi] - (AssignedSum(ctx, st, eqi) + val)
        others == SelectSeq(UnassignedIn(ctx, st, eqi), LAMBDA ov : ov # vi)
        minSum == SeqSum([k \in 1..Len(others) |-> DomMin(ctx, others[k])])
        maxSum == SeqSum([k \in 1..Len(others) |-> DomMax(ctx, others[k])])
    IN  ~(remTarget < minSum \/ remTarget > maxSum)

pickNextVar(ctx, st) ==
  LET un == {i \in 1..ctx.n : IsNull(st.assign[i])}
      score(i) == Len(ctx.varToEq[i])
  IN  CHOOSE i \in un : \A j \in un : score(j) < score(i) \/ (score(j) = score(i) /\ i <= j)

buildCandidates(ctx, st, vi) ==
  SelectSeq(ctx.domains[vi], LAMBDA v :
    /\ ~(ctx.useGlobalCounts /\ v # 0 /\ MapGet(st.remCounts, v, 0) <= 0)
    /\ candidateFeasible(ctx, st, vi, v))

\* Fault: the value stays assigned.
revertAssign_KeepsValue(ctx, st, vi, val) == st

\* lateAssigns counts the assignments made after the search was aborted.
applyAssign(ctx, st, vi, val) ==
  [st EXCEPT !.assign[vi] = Some(val),
             !.lateAssigns = IF st.aborted THEN @ + 1 ELSE @,
             !.remCounts = IF ctx.useGlobalCounts /\ val # 0
                           THEN [@ EXCEPT ![val] = @ - 1] ELSE @]

revertAssign(ctx, st, vi, val) ==
  [st EXCEPT !.assign[vi] = Null,
             !.remCounts = IF ctx.useGlobalCounts /\ val # 0
                           THEN [@ EXCEPT ![val] = @ + 1] ELSE @]

recordSolution(ctx, st) ==
  [st EXCEPT !.solutionCount = @ + 1,
             !.seenValues = [i \in 1..ctx.n |-> @[i] \cup {Val(st.assign[i])}],
             !.remMin = IF ctx.useGlobalCounts
                        THEN [v \in DOMAIN @ |->
                                IF IsNull(@[v]) THEN Some(st.remCounts[v])
                                ELSE Some(Min2(Val(@[v]), st.remCounts[v]))]
                        ELSE @,
             !.remMax = IF ctx.useGlobalCounts
                        THEN [v \in DOMAIN @ |->
                                IF IsNull(@[v]) THEN Some(st.remCounts[v])
                                ELSE Some(Max2(Val(@[v]), st.remCounts[v]))]
                        ELSE @]

\* Fault: the leaf test that asks for every remaining count to be 0 even when
\* free cells are left to take the remaining mines.
LeafAccepted_IgnoreFree(ctx, st) ==
  IF ctx.useGlobalCounts
  THEN \A i \in 1..Len(ctx.nonZeroValues) : st.remCounts[ctx.nonZeroValues[i]] = 0
  ELSE TRUE

\* The leaf test of dfs (solver.ts 363-372): may the full assignment be recorded.
LeafAccepted(ctx, st) ==
  IF ctx.useGlobalCounts
  THEN IF ctx.freeCount = 0
       THEN \A i \in 1..Len(ctx.nonZeroValues) : st.remCounts[ctx.nonZeroValues[i]] = 0
       ELSE ~(sumMapValues(st.remCounts) > ctx.freeCount)
  ELSE TRUE

RECURSIVE dfs(_, _)
RECURSIVE dfsTry(_, _, _, _, _)
dfs(ctx, st) ==
  IF st.aborted THEN st
  ELSE LET s1 == [st EXCEPT !.searchNodes = @ + 1]
       IN  IF s1.searchNodes > ctx.maxNodes THEN [s1 EXCEPT !.aborted = TRUE]
           ELSE IF \E eqi \in 1..Len(ctx.eqVars) : ~eqFeasible(ctx, s1, eqi) THEN s1
           ELSE IF ~groupFeasible(ctx, s1) THEN s1
           ELSE IF assignedCountOf(ctx, s1) = ctx.n
           THEN IF LeafAccepted(ctx, s1) THEN recordSolution(ctx, s1) ELSE s1
           ELSE LET vi == pickNextVar(ctx, s1)
                IN  dfsTry(ctx, s1, vi, buildCandidates(ctx, s1, vi), 1)

\* for (const val of candidates), from the k-th candidate on.
dfsTry(ctx, st, vi, candidates, k) ==
  IF k > Len(candidates) THEN st
  ELSE LET s2 == dfs(ctx, applyAssign(ctx, st, vi, candidates[k]))
           s3 == revertAssign(ctx, s2, vi, candidates[k])
       IN  IF s3.aborted THEN s3 ELSE dfsTry(ctx, s3, vi, candidates, k + 1)

\* Fault: a contradiction that is not reported as stalled.
Contradiction_NotStalled(reason, complete) == Result(<<>>, <<>>, FALSE, TRUE, reason, complete)

\* Fault: Contradiction with the contradiction flag left unset.
Contradiction_FlagUnset(reason, complete) == Result(<<>>, <<>>, TRUE, FALSE, reason, complete)

Contradiction(reason, complete) == Result(<<>>, <<>>, TRUE, TRUE, reason, complete)

\* Fault: searchOutcome without the test of aborted, so that the values of the
\* solutions seen before the budget ran out are returned as forced.
searchOutcome_IgnoreAbort(solutionCount, aborted, opens, marks) ==
  IF solutionCount = 0
  THEN Result(<<>>, <<>>, TRUE, TRUE,
              Reason("No assignments satisfy the visible constraints.", <<>>), ~aborted)
  ELSE Result(opens, marks, Len(opens) = 0 /\ Len(marks) = 0, FALSE, NoReason, TRUE)

\* The result after dfs() returned (solver.ts 391-450); opens and marks are
\* the moves the extraction of solver.ts 413-441 yields.
searchOutcome(solutionCount, aborted, opens, marks) ==
  IF solutionCount = 0
  THEN Contradiction(Reason("No assignments satisfy the visible constraints.", <<>>), ~aborted)
  ELSE IF aborted
  THEN Result(<<>>, <<>>, TRUE, FALSE,
              Reason("Search limit reached before proving forced moves.", <<>>), FALSE)
  ELSE Result(opens, marks, Len(opens) = 0 /\ Len(marks) = 0, FALSE, NoReason, TRUE)

\* A result with the pass that produced it and the whole-board search counters.
Traced(result, pass, searchNodes, aborted) ==
  [result |-> result, pass |-> pass, searchNodes |-> searchNodes, aborted |-> aborted]

\* The whole-board search (solver.ts 198-389): the equations over the
\* constrained variables, the counters at their initial values, then dfs();
\* the result is the state the search leaves.
wholeBoardDfs(built, propagation, componentAllowedValues, remainingCounts, nonZeroValues, useGlobalCounts, maxSearchNodes) ==
  LET cvi == built.constrainedVarIndices
      n == Len(cvi)
      equations == built.equations
      eqIds == [e \in 1..Len(equations) |-> e]
      eqVars == [e \in 1..Len(equations) |->
                   LET vs == SelectSeq(equations[e].vars, LAMBDA v : IndexOf(cvi, v) # 0)
                   IN  [k \in 1..Len(vs) |-> IndexOf(cvi, vs[k])]]
      begin(ctx) ==
        dfs(ctx, [assign |-> [i \in 1..n |-> Null], searchNodes |-> 0, aborted |-> FALSE,
                  lateAssigns |-> 0,
                  solutionCount |-> 0, seenValues |-> [i \in 1..n |-> {}],
                  remMin |-> [v \in Range(nonZeroValues) |-> Null],
                  remMax |-> [v \in Range(nonZeroValues) |-> Null],
                  remCounts |-> remainingCounts])
  IN  begin([n |-> n,
             eqVars |-> eqVars,
             targets |-> [e \in 1..Len(equations) |-> equations[e].target],
             domains |-> [i \in 1..n |-> MapGet(propagation.domains, cvi[i], componentAllowedValues)],
             varToEq |-> [vi \in 1..n |-> SelectSeq(eqIds, LAMBDA e : vi \in Range(eqVars[e]))],
             maxNodes |-> maxSearchNodes,
             useGlobalCounts |-> useGlobalCounts,
             freeCount |-> Cardinality(built.freeVarIndices),
             nonZeroValues |-> nonZeroValues])

\* solver.ts 198-450: the whole-board search and the extraction of its result.
wholeBoardSearch(built, propagation, componentAllowedValues, remainingCounts, nonZeroValues, useGlobalCounts, maxSearchNodes) ==
  LET cvi == built.constrainedVarIndices
      n == Len(cvi)
      freeCount == Cardinality(built.freeVarIndices)
      equations == built.equations
      eqVars == [e \in 1..Len(equations) |->
                   LET vs == SelectSeq(equations[e].vars, LAMBDA v : IndexOf(cvi, v) # 0)
                   IN  [k \in 1..Len(vs) |-> IndexOf(cvi, vs[k])]]
      free == SelectSeq([i \in 1..Len(built.unknownPositions) |-> i],
                        LAMBDA v : v \in built.freeVarIndices)
      freePos == [k \in 1..Len(free) |-> built.unknownPositions[free[k]]]
      \* the moves for the free cells, from the group counts the solutions left
      freeOpens(remMax) ==
        IF useGlobalCounts /\ freeCount > 0 /\ sumMapValues(remMax) = 0 THEN freePos ELSE <<>>
      freeMarks(remMin, remMax, exact) ==
        IF /\ useGlobalCounts /\ freeCount > 0
           /\ sumMapValues(remMax) # 0
           /\ sumMapValues(remMin) = freeCount
           /\ sumMapValues(remMax) = freeCount
           /\ allGroupsFixed(remMin, remMax, nonZeroValues)
           /\ ~IsNull(exact)
        THEN [k \in 1..Len(freePos) |-> [pos |-> freePos[k], value |-> Val(exact)]]
        ELSE <<>>
      moves(forced, remMin, remMax) ==
        [opens |-> ForcedOpens(forced, built.unknownPositions) \o freeOpens(remMax),
         marks |-> ForcedMarks(forced, built.unknownPositions)
                     \o freeMarks(remMin, remMax,
                                  exactSingleGroup(remMin, nonZeroValues, freeCount))]
      \* solver.ts 389-450, fin: the search state dfs() left
      outcome(fin) ==
        LET ones == SelectSeq([i \in 1..n |-> i], LAMBDA i : Cardinality(fin.seenValues[i]) = 1)
            m == moves([k \in 1..Len(ones) |->
                          <<cvi[ones[k]], CHOOSE x \in fin.seenValues[ones[k]] : TRUE>>],
                       [v \in Range(nonZeroValues) |-> Val(fin.remMin[v])],
                       [v \in Range(nonZeroValues) |-> Val(fin.remMax[v])])
        IN  Traced(searchOutcome(fin.solutionCount, fin.aborted, m.opens, m.marks),
                   "search", fin.searchNodes, fin.aborted)
  IN  IF \E e \in 1..Len(eqVars) : Len(eqVars[e]) = 0 /\ equations[e].target # 0
      THEN Traced(Contradiction(Reason("Visible hints are inconsistent.", <<>>), TRUE),
                  "search", 0, FALSE)
      ELSE outcome(wholeBoardDfs(built, propagation, componentAllowedValues, remainingCounts,
                                 nonZeroValues, useGlobalCounts, maxSearchNodes))

\* Fault: a quarter of the budget, without the minimum.
componentNodeBudget_QuarterOnly(maxSearchNodes) == maxSearchNodes \div 4

\* The node budget of each component's search (solver.ts 155).
componentNodeBudget(maxSearchNodes) == Max2(MIN_COMPONENT_NODES, maxSearchNodes \div 4)

\* solver.ts 107-196: propagation, the component pass, the totals-only case.
localPasses(built, remainingCounts, nonZeroValues, useGlobalCounts, min, max, maxSearchNodes) ==
  LET cvi == built.constrainedVarIndices
      nzLeft == SelectSeq(nonZeroValues, LAMBDA v : MapGet(remainingCounts, v, 0) > 0)
      componentAllowedValues ==
        uniqueSorted(IF useGlobalCounts THEN <<0>> \o nzLeft ELSE buildDomain(min, max))
      \* solver.ts 151-196 and the search, once both passes forced nothing
      afterComponents(propagation, componentPass) ==
        IF componentPass.contradiction
        THEN Traced(Contradiction(componentPass.reason, componentPass.complete),
                    "components", 0, FALSE)
        ELSE IF Len(componentPass.forced) > 0
        THEN Traced(Result(ForcedOpens(componentPass.forced, built.unknownPositions),
                           ForcedMarks(componentPass.forced, built.unknownPositions),
                           FALSE, FALSE,
                           IF componentPass.complete THEN NoReason
                           ELSE Reason("Component search budget reached.", <<>>),
                           componentPass.complete),
                    "components", 0, FALSE)
        ELSE IF Len(cvi) = 0
        THEN IF ~useGlobalCounts
             THEN Traced(Result(<<>>, <<>>, TRUE, FALSE, NoReason, TRUE), "none", 0, FALSE)
             ELSE Traced(solveOnlyFromGlobalCounts(built.unknownPositions, remainingCounts,
                                                   nonZeroValues,
                                                   Cardinality(built.freeVarIndices)),
                         "totals", 0, FALSE)
        ELSE wholeBoardSearch(built, propagation, componentAllowedValues, remainingCounts,
                              nonZeroValues, useGlobalCounts, maxSearchNodes)
      \* solver.ts 119-149
      afterBounds(propagation) ==
        IF propagation.contradiction
        THEN Traced(Contradiction(propagation.reason, TRUE), "bounds", 0, FALSE)
        ELSE IF Len(propagation.forced) > 0
        THEN Traced(Result(ForcedOpens(propagation.forced, built.unknownPositions),
                           ForcedMarks(propagation.forced, built.unknownPositions),
                           FALSE, FALSE, NoReason, TRUE),
                    "bounds", 0, FALSE)
        ELSE afterComponents(propagation,
                             inferForcedFromComponents(
                               cvi, built.equations, propagation.domains,
                               componentNodeBudget(maxSearchNodes)))
  IN  afterBounds(inferForcedByBounds(cvi, built.equations, componentAllowedValues))

\* input: cells, maxMinesPerCell, negativeMines, groupTotals (Null = undefined),
\* maxSearchNodes (Null = undefined).
solveLogicallyTraced(input) ==
  LET max == input.maxMinesPerCell
      min == IF input.negativeMines THEN -max ELSE 0
      maxSearchNodes == IF IsNull(input.maxSearchNodes) THEN DEFAULT_MAX_SEARCH_NODES
                        ELSE Val(input.maxSearchNodes)
      nonZeroValues == buildNonZeroValues(min, max)
      useGlobalCounts == ~IsNull(input.groupTotals)
      groupTotals == IF useGlobalCounts
                     THEN Some(buildGroupTotals(nonZeroValues, input.groupTotals)) ELSE Null
      \* solver.ts 68-105 and the passes
      checked(built, remainingCounts) ==
        LET negative == SelectSeq(nonZeroValues, LAMBDA v : remainingCounts[v] < 0)
        IN  IF ~IsNull(built.contradiction)
            THEN Traced(Contradiction(Val(built.contradiction), TRUE), "build", 0, FALSE)
            ELSE IF useGlobalCounts /\ Len(negative) > 0
            THEN Traced(Contradiction(Reason("Too many fixed cells for group.",
                                             <<negative[1]>>), TRUE),
                        "build", 0, FALSE)
            ELSE IF useGlobalCounts
                    /\ sumMapValues(remainingCounts) > Len(built.unknownPositions)
            THEN Traced(Contradiction(Reason("Remaining mine groups exceed unknown cell count.",
                                             <<>>), TRUE),
                        "build", 0, FALSE)
            ELSE localPasses(built, remainingCounts, nonZeroValues, useGlobalCounts, min, max,
                             maxSearchNodes)
      counted(built) ==
        checked(built,
                IF useGlobalCounts
                THEN [v \in Range(nonZeroValues) |->
                        MapGet(Val(groupTotals), v, 0) - MapGet(built.fixedCounts, v, 0)]
                ELSE <<>>)
  IN  counted(buildState(input, groupTotals))

solveLogically(input) == solveLogicallyTraced(input).result

\* ------------------------------------------------------------------ board.ts
\* neighbours() of board.ts: the square grid on the plane topology.
normalizeForTopology(row, col, rows, cols) ==
  IF rows <= 0 \/ cols <= 0 THEN Null
  ELSE IF row < 0 \/ row >= rows \/ col < 0 \/ col >= cols THEN Null
  ELSE Some(<<row, col>>)

boardNeighbours(row, col, rows, cols) ==
  LET deltas == << <<-1, -1>>, <<-1, 0>>, <<-1, 1>>, <<0, -1>>,
                   <<0, 1>>, <<1, -1>>, <<1, 0>>, <<1, 1>> >>
      norm == [i \in 1..8 |-> normalizeForTopology(row + deltas[i][1], col + deltas[i][2], rows, cols)]
      kept == SelectSeq(norm, LAMBDA o : ~IsNull(o))
  IN  [i \in 1..Len(kept) |-> Val(kept[i])]

Cell(mineCount, opened, markerCount, hint) ==
  [mineCount |-> mineCount, opened |-> opened, markerCount |-> markerCount, hint |-> hint]

createEmptyGrid == [p \in AllPos |-> Cell(0, FALSE, 0, 0)]

computeHints(g) ==
  [p \in AllPos |->
     LET nb == boardNeighbours(p[1], p[2], Rows, Cols)
     IN  [g[p] EXCEPT !.hint = SeqSum([i \in 1..Len(nb) |-> g[nb[i]].mineCount])]]

\* ---- placeMines (board.ts 213-331)
\* The random generator is a free choice at every draw: rng() < density may
\* fall either way (density strictly between 0 and 1; the outcomes of density
\* 0 and 1 are among these) and pickRandomFromBucket may return any item.
\* m: position :> mineCount so far.  The result is the set of final boards.
maxMinesPerCellCapped(c) == Max2(1, Min2(6, c.maxMinesPerCell))

\* Targets that never count a cell as full.
PositiveTargets_NoCap(c, m, eligible) ==
  {p \in eligible : m[p] > 0} \cup {p \in eligible : m[p] = 0}

\* The cells the next positive mine may go to; {} when the loop breaks.
PositiveTargets(c, m, eligible) ==
  LET empty == {p \in eligible : m[p] = 0}
      partial == {p \in eligible : m[p] > 0 /\ m[p] < maxMinesPerCellCapped(c)}
  IN  partial \cup (IF empty # {} THEN empty ELSE {})

RECURSIVE PlacePositive(_, _, _, _)
PlacePositive(c, m, eligible, placed) ==
  IF ~(placed < c.minesTotal) \/ PositiveTargets(c, m, eligible) = {} THEN {m}
  ELSE UNION {PlacePositive(c, Put(m, t, m[t] + 1), eligible, placed + 1) :
                t \in PositiveTargets(c, m, eligible)}

NegativeTargets(c, m, negEligible) ==
  LET negEmpty == {p \in negEligible : m[p] = 0}
      negPartial == {p \in negEligible : m[p] < 0 /\ m[p] > -maxMinesPerCellCapped(c)}
  IN  negPartial \cup (IF negEmpty # {} THEN negEmpty ELSE {})

RECURSIVE PlaceNegative(_, _, _, _, _)
PlaceNegative(c, m, negEligible, negTotal, negPlaced) ==
  IF ~(negPlaced < negTotal) \/ NegativeTargets(c, m, negEligible) = {} THEN {m}
  ELSE UNION {PlaceNegative(c, Put(m, t, m[t] - 1), negEligible, negTotal, negPlaced + 1) :
                t \in NegativeTargets(c, m, negEligible)}

placeMines(c, excludePositions) ==
  LET eligible == AllPos \ excludePositions
      positive == PlacePositive(c, [p \in AllPos |-> 0], eligible, 0)
      negOf(m) ==
        LET negEligible == {p \in eligible : m[p] = 0}
            negTotal == Min2((c.minesTotal * 3) \div 10,
                             Cardinality(negEligible) * maxMinesPerCellCapped(c))
        IN  PlaceNegative(c, m, negEligible, negTotal, 0)
  IN  IF c.negativeMines THEN UNION {negOf(m) : m \in positive} ELSE positive

\* ------------------------------------------------------------------- game.ts
VARIABLES
  cfg,          \* Game.config: maxMinesPerCell, negativeMines, minesTotal, safeFirstClick
  grid,         \* Game.grid
  status,       \* Game.status: "playing", "won", "lost"
  explodedPos,  \* Game.explodedPos, Null or Some(pos)
  firstClick,   \* Game.firstClick
  safeCellCount,\* Game.safeCellCount
  openedCount,  \* Game.openedCount
  input,        \* the SolverInput of the last solveLogically call
  out,          \* Null, or Some(traced result) of the last solveLogically call
  forcedBefore  \* cells the earlier calls forced and their values, pos :> value

vars == <<cfg, grid, status, explodedPos, firstClick, safeCellCount, openedCount,
          input, out, forcedBefore>>

cellView(g, st, p) ==
  LET c == g[p]
      gameOver == st = "lost" \/ st = "won"
  IN  [opened |-> c.opened,
       markerCount |-> c.markerCount,
       hint |-> IF c.opened THEN Some(c.hint)
                ELSE IF gameOver /\ c.mineCount = 0 THEN Some(c.hint) ELSE Null,
       mineCount |-> IF gameOver \/ c.opened THEN Some(c.mineCount) ELSE Null]

visibleCells(g, st) == [p \in AllPos |-> cellView(g, st, p)]

minMarker(c) == IF c.negativeMines THEN -c.maxMinesPerCell ELSE 0
maxMarker(c) == c.maxMinesPerCell

\* The groups with a positive total, as group :> total (the map of
\* solveLogicalStep over mineDistribution()).
mineDistribution(c, g) ==
  LET max == c.maxMinesPerCell
      min == IF c.negativeMines THEN -max ELSE 1
      total(v) == Cardinality({p \in AllPos : g[p].mineCount = v})
      groups == {v \in min..max : v # 0 /\ total(v) > 0}
  IN  [v \in groups |-> total(v)]


\* ---- Game (game.ts 17-492).  G: grid, status, explodedPos, firstClick,
\* safeCellCount, openedCount.
inBounds(row, col) == row >= 0 /\ row < Rows /\ col >= 0 /\ col < Cols

\* initBoard with the board placeMines produced (mines: position :> mineCount).
initBoard(G, mines) ==
  [G EXCEPT !.grid = computeHints([p \in AllPos |-> Cell(mines[p], FALSE, 0, 0)]),
            !.safeCellCount = Cardinality({p \in AllPos : mines[p] = 0})]

\* new Game(config): the boards the constructor may leave.
NewGames(c) ==
  LET G0 == [grid |-> createEmptyGrid, status |-> "playing", explodedPos |-> Null,
             firstClick |-> TRUE, safeCellCount |-> 0, openedCount |-> 0]
  IN  IF ~c.safeFirstClick THEN {initBoard(G0, m) : m \in placeMines(c, {})} ELSE {G0}

checkWin(G) == IF G.openedCount = G.safeCellCount THEN [G EXCEPT !.status = "won"] ELSE G

\* The flood fill loop of open and openSafe: queue.pop() takes the last element.
\* F: grid, openedCount, opened (the cells opened, in order).
RECURSIVE FloodFill(_, _)
FloodFill(F, queue) ==
  IF Len(queue) = 0 THEN F
  ELSE LET p == queue[Len(queue)]
           rest == SubSeq(queue, 1, Len(queue) - 1)
           nc == F.grid[p]
       IN  IF nc.opened \/ nc.markerCount # 0 \/ nc.mineCount # 0 THEN FloodFill(F, rest)
           ELSE FloodFill([grid |-> WithOpened(F.grid, p),
                           openedCount |-> F.openedCount + 1,
                           opened |-> Append(F.opened, p)],
                          IF nc.hint = 0 /\ nc.mineCount = 0
                          THEN rest \o boardNeighbours(p[1], p[2], Rows, Cols) ELSE rest)

\* An exclusion that keeps the clicked cell only.
FirstClickExclude_ClickedOnly(row, col) == {<<row, col>>}

\* The cells initBoard excludes on a safe first click at (row, col).
FirstClickExclude(row, col) == {<<row, col>>} \cup Range(boardNeighbours(row, col, Rows, Cols))

\* open(row, col).  placed is the board placeMines produces if this call runs
\* initBoard.  Returns g (the game after), opened (the return value) and
\* initAt (Some(position) when this call ran initBoard).
open(c, G, row, col, placed) ==
  IF G.status # "playing" THEN [g |-> G, opened |-> <<>>, initAt |-> Null]
  ELSE IF ~inBounds(row, col) THEN [g |-> G, opened |-> <<>>, initAt |-> Null]
  ELSE
  LET init == G.firstClick /\ c.safeFirstClick
      initAt == IF init THEN Some(<<row, col>>) ELSE Null
      p == <<row, col>>
      \* G2: the cell opened, F: what the flood fill left
      filled(G2, F) ==
        [g |-> checkWin([G2 EXCEPT !.grid = F.grid, !.openedCount = F.openedCount]),
         opened |-> F.opened, initAt |-> initAt]
      reveal(G1, cell, G2) ==
        IF cell.opened \/ cell.markerCount # 0 THEN [g |-> G1, opened |-> <<>>, initAt |-> initAt]
        ELSE IF cell.mineCount # 0
        THEN [g |-> [G2 EXCEPT !.status = "lost", !.explodedPos = Some(p)],
              opened |-> <<p>>, initAt |-> initAt]
        ELSE filled(G2,
                    IF cell.hint = 0
                    THEN FloodFill([grid |-> G2.grid, openedCount |-> G2.openedCount,
                                    opened |-> <<p>>],
                                   boardNeighbours(row, col, Rows, Cols))
                    ELSE [grid |-> G2.grid, openedCount |-> G2.openedCount, opened |-> <<p>>])
      \* G1: the game once the first click is settled
      click(G1) ==
        reveal(G1, G1.grid[p], [G1 EXCEPT !.grid = WithOpened(@, p), !.openedCount = @ + 1])
  IN  click(IF init THEN [initBoard(G, placed) EXCEPT !.firstClick = FALSE]
            ELSE [G EXCEPT !.firstClick = FALSE])

cycleMarker(c, G, row, col) ==
  IF G.status # "playing" THEN G
  ELSE IF ~inBounds(row, col) THEN G
  ELSE IF G.grid[<<row, col>>].opened THEN G
  ELSE LET m == G.grid[<<row, col>>].markerCount
       IN  [G EXCEPT !.grid = WithMarker(@, <<row, col>>,
              IF m >= c.maxMinesPerCell THEN 0
              ELSE IF m + 1 = 0 THEN 1 ELSE m + 1)]

cycleMarkerDown(c, G, row, col) ==
  IF G.status # "playing" THEN G
  ELSE IF ~inBounds(row, col) THEN G
  ELSE IF G.grid[<<row, col>>].opened THEN G
  ELSE LET m == G.grid[<<row, col>>].markerCount
           min == IF c.negativeMines THEN -c.maxMinesPerCell ELSE 0
       IN  [G EXCEPT !.grid = WithMarker(@, <<row, col>>,
              IF m <= min THEN 0
              ELSE IF m - 1 = 0 THEN -1 ELSE m - 1)]

\* ---- solveLogicalStep (game.ts 327-363)
\* The snapshot solveLogicalStep hands to solveLogically.
StepInput(c, G, maxSearchNodes) ==
  [cells |-> visibleCells(G.grid, G.status),
   maxMinesPerCell |-> c.maxMinesPerCell,
   negativeMines |-> c.negativeMines,
   groupTotals |-> Some(mineDistribution(c, G.grid)),
   maxSearchNodes |-> maxSearchNodes]

\* for (const m of result.marks), from the i-th mark on.  A: g, markedCount.
RECURSIVE ApplyMarks(_, _, _)
ApplyMarks(A, marks, i) ==
  IF i > Len(marks) THEN A
  ELSE LET cell == A.g.grid[marks[i].pos]
       IN  IF ~cell.opened /\ cell.markerCount = 0
           THEN ApplyMarks([g |-> [A.g EXCEPT !.grid = WithMarker(@, marks[i].pos, marks[i].value)],
                            markedCount |-> A.markedCount + 1],
                           marks, i + 1)
           ELSE ApplyMarks(A, marks, i + 1)

\* Fault: openedCount counts the calls of open, not the cells they opened.
RECURSIVE ApplyOpens_CountsCalls(_, _, _, _, _)
ApplyOpens_CountsCalls(c, A, opens, i, placed) ==
  IF i > Len(opens) THEN A
  ELSE LET cell == A.g.grid[opens[i]]
           after(o) ==
             ApplyOpens_CountsCalls(c, [g |-> o.g,
                                        openedCount |-> A.openedCount + 1,
                                        initAt |-> IF IsNull(A.initAt) THEN o.initAt
                                                   ELSE A.initAt],
                                    opens, i + 1, placed)
       IN  IF ~cell.opened /\ cell.markerCount = 0
           THEN after(open(c, A.g, opens[i][1], opens[i][2], placed))
           ELSE ApplyOpens_CountsCalls(c, A, opens, i + 1, placed)

\* for (const p of result.opens), from the i-th open on.  A: g, openedCount,
\* initAt.
RECURSIVE ApplyOpens(_, _, _, _, _)
ApplyOpens(c, A, opens, i, placed) ==
  IF i > Len(opens) THEN A
  ELSE LET cell == A.g.grid[opens[i]]
           \* o: what this.open returned
           after(o) ==
             ApplyOpens(c, [g |-> o.g,
                            openedCount |-> A.openedCount + Len(o.opened),
                            initAt |-> IF IsNull(A.initAt) THEN o.initAt ELSE A.initAt],
                        opens, i + 1, placed)
       IN  IF ~cell.opened /\ cell.markerCount = 0
           THEN after(open(c, A.g, opens[i][1], opens[i][2], placed))
           ELSE ApplyOpens(c, A, opens, i + 1, placed)

\* Returns g (the game after), result, openedCount, markedCount and initAt
\* (Some(position) of the open that ran initBoard, if one did).
solveLogicalStep(c, G, maxSearchNodes, placed) ==
  LET applied(result, marked, opened) ==
        [g |-> opened.g, result |-> result, openedCount |-> opened.openedCount,
         markedCount |-> marked.markedCount, initAt |-> opened.initAt]
      opening(result, marked) ==
        applied(result, marked,
                ApplyOpens(c, [g |-> marked.g, openedCount |-> 0, initAt |-> Null],
                           result.opens, 1, placed))
      apply(result) ==
        IF result.contradiction \/ ~result.complete
        THEN [g |-> G, result |-> result, openedCount |-> 0, markedCount |-> 0, initAt |-> Null]
        ELSE opening(result, ApplyMarks([g |-> G, markedCount |-> 0], result.marks, 1))
  IN  apply(solveLogically(StepInput(c, G, maxSearchNodes)))

\* ---- solveLogicalUntilStuck (game.ts 365-384)
\* Fault: the loop does not test steps < maxSteps.
RECURSIVE UntilStuckLoop_IgnoresLimit(_, _, _, _, _)
UntilStuckLoop_IgnoresLimit(c, L, maxSteps, maxSearchNodes, placed) ==
  IF L.g.status # "playing" THEN L
  ELSE LET continue(step, L1) ==
             IF step.result.contradiction \/ ~step.result.complete THEN L1
             ELSE IF step.openedCount = 0 /\ step.markedCount = 0 THEN L1
             ELSE UntilStuckLoop_IgnoresLimit(c, [L1 EXCEPT !.steps = @ + 1], maxSteps,
                                              maxSearchNodes, placed)
           taken(step) ==
             continue(step, [g |-> step.g, last |-> step.result, steps |-> L.steps,
                             calls |-> L.calls + 1,
                             productive |-> L.productive
                                + (IF step.openedCount > 0 \/ step.markedCount > 0 THEN 1 ELSE 0),
                             initAt |-> IF IsNull(L.initAt) THEN step.initAt ELSE L.initAt])
       IN  taken(solveLogicalStep(c, L.g, maxSearchNodes, placed))

\* The while loop, from the state L: g, last, steps, initAt; calls counts the
\* calls of solveLogicalStep and productive those that opened or marked a cell.
RECURSIVE UntilStuckLoop(_, _, _, _, _)
UntilStuckLoop(c, L, maxSteps, maxSearchNodes, placed) ==
  IF ~(L.steps < maxSteps /\ L.g.status = "playing") THEN L
  ELSE LET continue(step, L1) ==
             IF step.result.contradiction \/ ~step.result.complete THEN L1
             ELSE IF step.openedCount = 0 /\ step.markedCount = 0 THEN L1
             ELSE UntilStuckLoop(c, [L1 EXCEPT !.steps = @ + 1], maxSteps, maxSearchNodes,
                                 placed)
           taken(step) ==
             continue(step, [g |-> step.g, last |-> step.result, steps |-> L.steps,
                             calls |-> L.calls + 1,
                             productive |-> L.productive
                                + (IF step.openedCount > 0 \/ step.markedCount > 0 THEN 1 ELSE 0),
                             initAt |-> IF IsNull(L.initAt) THEN step.initAt ELSE L.initAt])
       IN  taken(solveLogicalStep(c, L.g, maxSearchNodes, placed))

solveLogicalUntilStuck(c, G, maxSteps, maxSearchNodes, placed) ==
  UntilStuckLoop(c, [g |-> G, last |-> Result(<<>>, <<>>, TRUE, FALSE, NoReason, TRUE),
                     steps |-> 0, calls |-> 0, productive |-> 0, initAt |-> Null],
                 maxSteps, maxSearchNodes, placed)

\* ---- chordOpen (game.ts 225-248)
\* A chordOpen that does not compare the marker sum with the hint.
chordOpen_NoSumCheck(c, G, row, col, placed) ==
  IF G.status # "playing" THEN [g |-> G, openedCount |-> 0, initAt |-> Null]
  ELSE IF ~inBounds(row, col) THEN [g |-> G, openedCount |-> 0, initAt |-> Null]
  ELSE IF ~G.grid[<<row, col>>].opened THEN [g |-> G, openedCount |-> 0, initAt |-> Null]
  ELSE ApplyOpens(c, [g |-> G, openedCount |-> 0, initAt |-> Null],
                  boardNeighbours(row, col, Rows, Cols), 1, placed)

\* Returns g, openedCount (the length of the returned list) and initAt.
chordOpen(c, G, row, col, placed) ==
  IF G.status # "playing" THEN [g |-> G, openedCount |-> 0, initAt |-> Null]
  ELSE IF ~inBounds(row, col) THEN [g |-> G, openedCount |-> 0, initAt |-> Null]
  ELSE IF ~G.grid[<<row, col>>].opened THEN [g |-> G, openedCount |-> 0, initAt |-> Null]
  ELSE LET nbrs == boardNeighbours(row, col, Rows, Cols)
           markerSum == SeqSum([i \in 1..Len(nbrs) |->
                                  IF ~G.grid[nbrs[i]].opened THEN G.grid[nbrs[i]].markerCount
                                  ELSE 0])
       IN  IF markerSum # G.grid[<<row, col>>].hint
           THEN [g |-> G, openedCount |-> 0, initAt |-> Null]
           ELSE ApplyOpens(c, [g |-> G, openedCount |-> 0, initAt |-> Null], nbrs, 1, placed)

\* ---- openSafe (game.ts 282-302)
\* Fault: openSafe opens a cell that carries a marker.
openSafe_IgnoresMarker(G, row, col) ==
  LET p == <<row, col>>
      cell == G.grid[p]
      fill(F) == [G EXCEPT !.grid = F.grid, !.openedCount = F.openedCount]
  IN  IF cell.opened THEN G
      ELSE IF cell.hint = 0
      THEN fill(FloodFill([grid |-> WithOpened(G.grid, p), openedCount |-> G.openedCount + 1,
                           opened |-> <<p>>],
                          boardNeighbours(row, col, Rows, Cols)))
      ELSE [G EXCEPT !.grid = WithOpened(@, p), !.openedCount = @ + 1]

openSafe(G, row, col) ==
  LET p == <<row, col>>
      cell == G.grid[p]
      fill(F) == [G EXCEPT !.grid = F.grid, !.openedCount = F.openedCount]
  IN  IF cell.opened \/ cell.markerCount # 0 THEN G
      ELSE IF cell.hint = 0
      THEN fill(FloodFill([grid |-> WithOpened(G.grid, p), openedCount |-> G.openedCount + 1,
                           opened |-> <<p>>],
                          boardNeighbours(row, col, Rows, Cols)))
      ELSE [G EXCEPT !.grid = WithOpened(@, p), !.openedCount = @ + 1]

\* ---- applyHint (game.ts 252-279)
\* for (const pos of targets), from the i-th target on.
RECURSIVE HintTargets(_, _, _)
HintTargets(G, targets, i) ==
  IF i > Len(targets) THEN G
  ELSE LET cell == G.grid[targets[i]]
       IN  IF cell.opened THEN HintTargets(G, targets, i + 1)
           ELSE IF cell.mineCount # 0
           THEN HintTargets([G EXCEPT !.grid = WithMarker(@, targets[i], cell.mineCount)],
                            targets, i + 1)
           ELSE HintTargets(openSafe(G, targets[i][1], targets[i][2]), targets, i + 1)

\* Returns g and initAt.
applyHint(c, G, row, col, placed) ==
  IF G.status # "playing" THEN [g |-> G, initAt |-> Null]
  ELSE IF ~inBounds(row, col) THEN [g |-> G, initAt |-> Null]
  ELSE LET init == G.firstClick /\ c.safeFirstClick
           hinted(G1) ==
             checkWin(HintTargets(G1, <<<<row, col>>>> \o boardNeighbours(row, col, Rows, Cols), 1))
       IN  [g |-> hinted(IF init THEN [initBoard(G, placed) EXCEPT !.firstClick = FALSE]
                         ELSE [G EXCEPT !.firstClick = FALSE]),
            initAt |-> IF init THEN Some(<<row, col>>) ELSE Null]

\* ---- giveUp (game.ts 304-307)
giveUp(G) == IF G.status # "playing" THEN G ELSE [G EXCEPT !.status = "lost"]

\* ---- guessEducated (game.ts 386-457).  Risks and scores are fractions
\* <<numerator, denominator>> with a positive denominator, compared exactly.
FracLess(a, b) == a[1] * b[2] < b[1] * a[2]
FracEq(a, b) == a[1] * b[2] = b[1] * a[2]
FracAdd(a, b) == <<a[1] * b[2] + b[1] * a[2], a[2] * b[2]>>
FracMul(a, b) == <<a[1] * b[1], a[2] * b[2]>>
RECURSIVE FracSum(_)
FracSum(s) == IF Len(s) = 0 THEN <<0, 1>> ELSE FracAdd(Head(s), FracSum(Tail(s)))
\* Math.max(0, Math.min(1, a))
Clamp01(a) == IF a[1] < 0 THEN <<0, 1>> ELSE IF a[1] > a[2] THEN <<1, 1>> ELSE a

hiddenUnmarked(G, p) == ~G.grid[p].opened /\ G.grid[p].markerCount = 0

\* Fault: the residual is clamped from below at 0.
boundedRemaining_ZeroFloor(min, max, unknownCount, remaining) ==
  Max2(0, Min2(max * unknownCount, remaining))

\* game.ts 433
boundedRemaining(min, max, unknownCount, remaining) ==
  Max2(min * unknownCount, Min2(max * unknownCount, remaining))

\* game.ts 415-434: the clue n, an opened cell: its unknown neighbours, its
\* residual and its local risk (0 when it has no unknown neighbour and is
\* skipped).
clueRisk(c, G, n) ==
  LET risk(unknownCount, remaining) ==
        [unknownCount |-> unknownCount,
         remaining |-> remaining,
         localRisk |->
           IF unknownCount = 0 THEN <<0, 1>>
           ELSE Clamp01(<<Abs(boundedRemaining(minMarker(c), maxMarker(c), unknownCount,
                                               remaining)),
                          Max2(1, maxMarker(c)) * unknownCount>>)]
      around(nn) ==
        risk(Cardinality({i \in 1..Len(nn) : hiddenUnmarked(G, nn[i])}),
             G.grid[n].hint
               - SeqSum([i \in 1..Len(nn) |->
                           IF G.grid[nn[i]].opened THEN G.grid[nn[i]].mineCount
                           ELSE G.grid[nn[i]].markerCount]))
  IN  around(boardNeighbours(n[1], n[2], Rows, Cols))

\* game.ts 393-405
globalRisk(c, G) ==
  LET totalUnknown == Cardinality({p \in AllPos : hiddenUnmarked(G, p)})
      dist == mineDistribution(c, G.grid)
      flagged(v) == Cardinality({p \in AllPos : ~G.grid[p].opened /\ G.grid[p].markerCount = v})
      min == IF c.negativeMines THEN -c.maxMinesPerCell ELSE 1
      groups == SelectSeq([i \in 1..(c.maxMinesPerCell - min + 1) |-> min + i - 1],
                          LAMBDA v : v \in DOMAIN dist)
      remainingPackedCells ==
        SeqSum([i \in 1..Len(groups) |-> Max2(0, dist[groups[i]] - flagged(groups[i]))])
  IN  Clamp01(<<remainingPackedCells, totalUnknown>>)

\* game.ts 407-444: the score and the evidence of the candidate p.
candidateScore(c, G, p) ==
  LET scored(risks, global) ==
        [evidence |-> Len(risks),
         score |-> IF Len(risks) > 0
                   THEN FracAdd(FracMul(FracMul(FracSum(risks), <<1, Len(risks)>>), <<3, 4>>),
                                FracMul(global, <<1, 4>>))
                   ELSE FracAdd(global, <<1, 20>>)]
      around(clues) ==
        scored([i \in 1..Len(clues) |-> clues[i].localRisk], globalRisk(c, G))
      considered(all) == around(SelectSeq(all, LAMBDA r : r.opened /\ r.unknownCount # 0))
      each(nbrs) ==
        considered([i \in 1..Len(nbrs) |->
                      [opened |-> G.grid[nbrs[i]].opened,
                       unknownCount |-> clueRisk(c, G, nbrs[i]).unknownCount,
                       localRisk |-> clueRisk(c, G, nbrs[i]).localRisk]])
  IN  each(boardNeighbours(p[1], p[2], Rows, Cols))

\* The comparator of candidates.sort (game.ts 448-453): a sorts before b.
sortsBefore(a, b) ==
  \/ FracLess(a.score, b.score)
  \/ /\ FracEq(a.score, b.score)
     /\ \/ a.evidence > b.evidence
        \/ /\ a.evidence = b.evidence
           /\ \/ a.pos[1] < b.pos[1]
              \/ a.pos[1] = b.pos[1] /\ a.pos[2] < b.pos[2]

\* Returns g, guessed, pos (Some(position opened)), openedCount (the cells
\* this.open opened) and initAt.
guessEducated(c, G, placed) ==
  LET none == [g |-> G, guessed |-> FALSE, pos |-> Null, openedCount |-> 0, initAt |-> Null]
      candidate(p, cs) == [pos |-> p, score |-> cs.score, evidence |-> cs.evidence]
      opening(best, o) ==
        [g |-> o.g, guessed |-> TRUE, pos |-> Some(best), openedCount |-> Len(o.opened),
         initAt |-> o.initAt]
      guess(best) == opening(best, open(c, G, best[1], best[2], placed))
      pick(candidates) ==
        IF candidates = {} THEN none
        ELSE guess((CHOOSE a \in candidates :
                      \A b \in candidates \ {a} : sortsBefore(a, b)).pos)
  IN  IF G.status # "playing" THEN none
      ELSE pick({candidate(p, candidateScore(c, G, p)) :
                   p \in {q \in AllPos : hiddenUnmarked(G, q)}})

\* ---- solveAutoWithGuesses (game.ts 459-491)
\* Fault: the loop guesses after a run that was not stalled.
RECURSIVE AutoLoop_GuessesUnstalled(_, _, _, _, _, _)
AutoLoop_GuessesUnstalled(c, A, maxCycles, maxLogicalStepsPerCycle, maxSearchNodes, placed) ==
  IF ~(A.i < maxCycles /\ A.g.status = "playing") THEN A
  ELSE LET afterGuess(A2, gu) ==
             IF ~gu.guessed THEN A2
             ELSE IF gu.g.status # "playing"
             THEN [A2 EXCEPT !.neededGuesses = @ + 1]
             ELSE AutoLoop_GuessesUnstalled(c, [A2 EXCEPT !.neededGuesses = @ + 1, !.i = @ + 1],
                           maxCycles, maxLogicalStepsPerCycle, maxSearchNodes, placed)
           guessedNow(A1, gu) ==
             afterGuess([A1 EXCEPT !.g = gu.g,
                                   !.initAt = IF IsNull(@) THEN gu.initAt ELSE @,
                                   !.trace = Append(@, [kind |-> "guess",
                                                        guessed |-> gu.guessed,
                                                        openedCount |-> gu.openedCount,
                                                        status |-> gu.g.status])],
                        gu)
           afterRun(A1, logical) ==
             IF logical.g.status # "playing" THEN A1
             ELSE IF logical.last.contradiction THEN A1
             ELSE IF ~logical.last.complete THEN A1
             ELSE guessedNow(A1, guessEducated(c, logical.g, placed))
           ran(logical) ==
             afterRun([g |-> logical.g, last |-> logical.last,
                       steps |-> A.steps + logical.steps,
                       neededGuesses |-> A.neededGuesses, i |-> A.i,
                       initAt |-> IF IsNull(A.initAt) THEN logical.initAt ELSE A.initAt,
                       trace |-> Append(A.trace,
                                        [kind |-> "run", stalled |-> logical.last.stalled,
                                         complete |-> logical.last.complete,
                                         contradiction |-> logical.last.contradiction,
                                         status |-> logical.g.status])],
                      logical)
       IN  ran(solveLogicalUntilStuck(c, A.g, maxLogicalStepsPerCycle, maxSearchNodes, placed))

\* The for loop, from the state A: g, last, steps, neededGuesses, i, initAt;
\* trace records the calls made: a run of solveLogicalUntilStuck with what it
\* returned and the status it left, or a call of guessEducated with what it
\* returned, the cells it opened and the status it left.
RECURSIVE AutoLoop(_, _, _, _, _, _)
AutoLoop(c, A, maxCycles, maxLogicalStepsPerCycle, maxSearchNodes, placed) ==
  IF ~(A.i < maxCycles /\ A.g.status = "playing") THEN A
  ELSE LET afterGuess(A2, gu) ==
             IF ~gu.guessed THEN A2
             ELSE IF gu.g.status # "playing"
             THEN [A2 EXCEPT !.neededGuesses = @ + 1]
             ELSE AutoLoop(c, [A2 EXCEPT !.neededGuesses = @ + 1, !.i = @ + 1],
                           maxCycles, maxLogicalStepsPerCycle, maxSearchNodes, placed)
           guessedNow(A1, gu) ==
             afterGuess([A1 EXCEPT !.g = gu.g,
                                   !.initAt = IF IsNull(@) THEN gu.initAt ELSE @,
                                   !.trace = Append(@, [kind |-> "guess",
                                                        guessed |-> gu.guessed,
                                                        openedCount |-> gu.openedCount,
                                                        status |-> gu.g.status])],
                        gu)
           afterRun(A1, logical) ==
             IF logical.g.status # "playing" THEN A1
             ELSE IF logical.last.contradiction THEN A1
             ELSE IF ~logical.last.complete THEN A1
             ELSE IF ~logical.last.stalled
             THEN AutoLoop(c, [A1 EXCEPT !.i = @ + 1], maxCycles,
                           maxLogicalStepsPerCycle, maxSearchNodes, placed)
             ELSE guessedNow(A1, guessEducated(c, logical.g, placed))
           ran(logical) ==
             afterRun([g |-> logical.g, last |-> logical.last,
                       steps |-> A.steps + logical.steps,
                       neededGuesses |-> A.neededGuesses, i |-> A.i,
                       initAt |-> IF IsNull(A.initAt) THEN logical.initAt ELSE A.initAt,
                       trace |-> Append(A.trace,
                                        [kind |-> "run", stalled |-> logical.last.stalled,
                                         complete |-> logical.last.complete,
                                         contradiction |-> logical.last.contradiction,
                                         status |-> logical.g.status])],
                      logical)
       IN  ran(solveLogicalUntilStuck(c, A.g, maxLogicalStepsPerCycle, maxSearchNodes, placed))

solveAutoWithGuesses(c, G, maxCycles, maxLogicalStepsPerCycle, maxSearchNodes, placed) ==
  AutoLoop(c, [g |-> G, last |-> Result(<<>>, <<>>, TRUE, FALSE, NoReason, TRUE),
               steps |-> 0, neededGuesses |-> 0, i |-> 0, initAt |-> Null, trace |-> <<>>],
           maxCycles, maxLogicalStepsPerCycle, maxSearchNodes, placed)

\* --------------------------------------------------- solver specification
Budgets == {Null} \cup {Some(b) : b \in 0..MaxBudget}

\* The declared totals explored on a board with some wrong markers: none, the
\* true ones, and, while MaxFaults allows, the true ones with one group
\* overstated by one.
TotalsChoices(c, g, wrong) ==
  LET true == mineDistribution(c, g)
      nz == {v \in minMarker(c)..maxMarker(c) : v # 0}
  IN  {Null, Some(true)} \cup
      (IF wrong + 1 <= MaxFaults
       THEN {Some([v \in DOMAIN true \cup {w} |->
                     IF v = w THEN MapGet(true, v, 0) + 1 ELSE true[v]]) : w \in nz}
       ELSE {})

SolverInput(c, g, st, totals, budget) ==
  [cells |-> visibleCells(g, st),
   maxMinesPerCell |-> c.maxMinesPerCell,
   negativeMines |-> c.negativeMines,
   groupTotals |-> totals,
   maxSearchNodes |-> budget]

\* Every board of a game in play: mines within the range of the config, any
\* safe cells opened, any markers within the marker range on hidden cells, of
\* which at most MaxFaults are wrong (a wrong marker, an overstated total).
InitSolver ==
  \E max \in 1..MaxPerCell, neg \in BOOLEAN :
    LET c == [maxMinesPerCell |-> max, negativeMines |-> neg,
              minesTotal |-> 0, safeFirstClick |-> FALSE]
        V == minMarker(c)..maxMarker(c)
    IN  \E mines \in [AllPos -> V] :
        \E op \in SUBSET {p \in AllPos : mines[p] = 0} :
          /\ SeqSum([i \in 1..Len(PosSeq) |-> Abs(mines[PosSeq[i]])]) <= MaxMines
          /\ \E marked \in SUBSET (AllPos \ op) :
               /\ Cardinality(marked) <= MaxMarked
               /\ \E mk \in [marked -> V \ {0}] :
                    /\ Cardinality({p \in marked : mk[p] # mines[p]}) <= MaxFaults
                    /\ LET g == computeHints([p \in AllPos |->
                                  Cell(mines[p], p \in op, IF p \in marked THEN mk[p] ELSE 0, 0)])
                           wrong == Cardinality({p \in marked : mk[p] # mines[p]})
                       IN  /\ cfg = c
                           /\ grid = g
                           /\ \E totals \in TotalsChoices(c, g, wrong), budget \in Budgets :
                                input = SolverInput(c, g, "playing", totals, budget)
  /\ status = "playing"
  /\ explodedPos = Null
  /\ firstClick = FALSE
  /\ safeCellCount = 0
  /\ openedCount = 0
  /\ out = Null
  /\ forcedBefore = <<>>

\* solveLogically(input)
Solve ==
  /\ out = Null
  /\ out' = Some(solveLogicallyTraced(input))
  /\ UNCHANGED <<cfg, grid, status, explodedPos, firstClick, safeCellCount, openedCount,
                 input, forcedBefore>>

\* The moves of a result as a set of [pos, value]; an open has value 0.
MovesOf(r) ==
  {[pos |-> r.opens[i], value |-> 0] : i \in 1..Len(r.opens)} \cup
  {[pos |-> r.marks[i].pos, value |-> r.marks[i].value] : i \in 1..Len(r.marks)}

\* The board after the moves S: an open reveals the cell, a mark sets the marker.
ApplyMoves(g, S) ==
  [p \in AllPos |->
     IF \E m \in S : m.pos = p
     THEN LET m == CHOOSE m \in S : m.pos = p
          IN  IF m.value = 0 THEN [g[p] EXCEPT !.opened = TRUE]
              ELSE [g[p] EXCEPT !.markerCount = m.value]
     ELSE g[p]]

\* The caller applies some of the returned moves and takes a new snapshot, to
\* be solved with a budget of its choice.
Apply ==
  /\ out # Null
  /\ \E S \in SUBSET MovesOf(Val(out).result), budget \in Budgets :
       /\ S # {}
       /\ grid' = ApplyMoves(grid, S)
       /\ input' = SolverInput(cfg, grid', status, input.groupTotals, budget)
       /\ forcedBefore' = forcedBefore @@
            [p \in {m.pos : m \in MovesOf(Val(out).result)} |->
               (CHOOSE m \in MovesOf(Val(out).result) : m.pos = p).value]
  /\ out' = Null
  /\ UNCHANGED <<cfg, status, explodedPos, firstClick, safeCellCount, openedCount>>

NextSolver == Solve \/ Apply

SpecSolver == InitSolver /\ [][NextSolver]_vars

\* ------------------------------------------------------ solver properties
Res == Val(out).result

\* The board is honest: opened cells are safe, every marker is the true mine
\* count of its cell, the declared totals are absent or the true ones.
Honest ==
  /\ \A p \in AllPos : grid[p].opened => grid[p].mineCount = 0
  /\ \A p \in AllPos : grid[p].markerCount # 0 => grid[p].markerCount = grid[p].mineCount
  /\ input.groupTotals \in {Null, Some(mineDistribution(cfg, grid))}

\* The value the visible state gives a cell that is not hidden and unmarked.
VisibleValue(cells, p) ==
  IF cells[p].opened
  THEN IF IsNull(cells[p].mineCount) THEN 0 ELSE Val(cells[p].mineCount)
  ELSE cells[p].markerCount

\* The completions consistent with the visible state: the assignments of
\* values in [min, max] to the hidden unmarked cells that satisfy every visible
\* hint and, when totals are declared, the count of every non-zero value.
Completions(inp) ==
  LET cells == inp.cells
      U == {p \in AllPos : IsUnknown(cells, p)}
      max == inp.maxMinesPerCell
      min == IF inp.negativeMines THEN -max ELSE 0
      valueOf(a, p) == IF p \in U THEN a[p] ELSE VisibleValue(cells, p)
      hintOk(a, p) ==
        LET nb == boardNeighbours(p[1], p[2], Rows, Cols)
        IN  Val(cells[p].hint) = SeqSum([i \in 1..Len(nb) |-> valueOf(a, nb[i])])
      totalOk(a, v) ==
        Cardinality({p \in AllPos : valueOf(a, p) = v}) = MapGet(Val(inp.groupTotals), v, 0)
  IN  {a \in [U -> min..max] :
         /\ \A p \in AllPos : cells[p].opened /\ ~IsNull(cells[p].hint) => hintOk(a, p)
         /\ ~IsNull(inp.groupTotals) => \A v \in (min..max) \ {0} : totalOk(a, v)}

\* C1: on an honest board, for every budget, each returned open is a cell of
\* true mine count 0 and each returned mark carries the true mine count of its
\* cell, and the cell has that value in every completion consistent with the
\* visible state.
C1_Soundness ==
  (out # Null /\ Honest) =>
    \A m \in MovesOf(Res) :
      /\ grid[m.pos].mineCount = m.value
      /\ \A a \in Completions(input) : a[m.pos] = m.value

\* An honest board with several completions on which the whole-board search
\* returned a mark.
C1_Witness ==
  /\ out # Null /\ Honest
  /\ Val(out).pass = "search"
  /\ Len(Res.marks) > 0
  /\ Cardinality(Completions(input)) > 1

\* C2: on an honest board, when every search finishes within its budget,
\* solveLogically returns contradiction = false.
C2_NoFalseContradiction ==
  (out # Null /\ Honest /\ ~Val(out).aborted) => ~Res.contradiction

\* An honest board with a flag and declared totals whose whole-board search
\* finished.
C2_Witness ==
  /\ out # Null /\ Honest /\ ~Val(out).aborted
  /\ Val(out).pass = "search" /\ Val(out).searchNodes > 0
  /\ ~IsNull(input.groupTotals)
  /\ \E p \in AllPos : grid[p].markerCount # 0
  /\ ~Res.contradiction

\* C3: whenever the search stops because its node budget was exceeded,
\* solveLogically returns complete = false and contradiction = false.
C3_AbortIsNotContradiction ==
  (out # Null /\ Val(out).aborted) => (~Res.complete /\ ~Res.contradiction)

\* C5 as stated: if no assignment satisfies the visible hints and the declared
\* totals, solveLogically, when its searches finish, returns contradiction =
\* true with a reason and no opens or marks.
C5_ContradictionSurfaced_AsStated ==
  (out # Null /\ ~Val(out).aborted /\ Completions(input) = {}) =>
    /\ Res.contradiction
    /\ Res.reason # NoReason
    /\ Len(Res.opens) = 0 /\ Len(Res.marks) = 0

\* C5 amended: on such a board solveLogically, when its searches finish, either
\* returns contradiction = true with a reason and no moves, or returns the
\* forced moves of the propagation or component pass, which stop the call
\* before the totals are examined; it never returns a complete result without
\* moves and without a contradiction.
C5_ContradictionSurfaced ==
  (out # Null /\ ~Val(out).aborted /\ Completions(input) = {}) =>
    \/ /\ Res.contradiction
       /\ Res.reason # NoReason
       /\ Len(Res.opens) = 0 /\ Len(Res.marks) = 0
    \/ /\ Val(out).pass \in {"bounds", "components"}
       /\ ~Res.contradiction
       /\ MovesOf(Res) # {}

\* An impossible board whose whole-board search finished with no solution.
C5_Witness ==
  /\ out # Null /\ ~Val(out).aborted /\ Completions(input) = {}
  /\ Val(out).pass = "search" /\ Val(out).searchNodes > 0
  /\ Res.contradiction /\ Res.complete

BudgetValue(b) == IF IsNull(b) THEN DEFAULT_MAX_SEARCH_NODES ELSE Val(b)

\* No cell is given one value by r1 and another by r2 (an open is value 0).
SameValues(r1, r2) ==
  \A m1 \in MovesOf(r1), m2 \in MovesOf(r2) : m1.pos = m2.pos => m1.value = m2.value

C7_Idempotent ==
  (out # Null /\ Honest /\ DOMAIN forcedBefore # {}) =>
    /\ ~Res.contradiction
    /\ \A m \in MovesOf(Res) :
         m.pos \in DOMAIN forcedBefore => forcedBefore[m.pos] = m.value

\* The count of value v the declared totals leave for the hidden unmarked
\* cells: the total minus the opened and flagged cells of that value.
RemainingOf(inp, v) ==
  MapGet(Val(inp.groupTotals), v, 0) -
  Cardinality({p \in AllPos : ~IsUnknown(inp.cells, p) /\ VisibleValue(inp.cells, p) = v})

MinOf(inp) == IF inp.negativeMines THEN -inp.maxMinesPerCell ELSE 0

UnknownNeighbours(inp, p) ==
  {n \in Range(boardNeighbours(p[1], p[2], Rows, Cols)) : IsUnknown(inp.cells, n)}

\* t of an opened hint cell: the hint minus its opened and flagged neighbours.
TargetOf(inp, p) ==
  LET nb == boardNeighbours(p[1], p[2], Rows, Cols)
  IN  Val(inp.cells[p].hint) -
      SeqSum([i \in 1..Len(nb) |->
                IF IsUnknown(inp.cells, nb[i]) THEN 0 ELSE VisibleValue(inp.cells, nb[i])])

\* The opened hint cell p has the single hidden unmarked neighbour n and its
\* t lies in [min, max] and, with totals, is 0 or has a positive remaining count.
SingleUnknown(inp, p, n) ==
  /\ inp.cells[p].opened /\ ~IsNull(inp.cells[p].hint)
  /\ UnknownNeighbours(inp, p) = {n}
  /\ TargetOf(inp, p) \in MinOf(inp)..inp.maxMinesPerCell
  /\ ~IsNull(inp.groupTotals) =>
       (TargetOf(inp, p) = 0 \/ RemainingOf(inp, TargetOf(inp, p)) > 0)

\* The visible hints alone have a solution with values in [min, max].
HintsSatisfiable(inp) == Completions([inp EXCEPT !.groupTotals = Null]) # {}

\* n is returned with the value t: in opens if t = 0, else as a mark of value t.
ReturnedAs(r, n, t) ==
  IF t = 0 THEN n \in Range(r.opens)
  ELSE [pos |-> n, value |-> t] \in Range(r.marks)

\* C8 as stated: a single hidden unmarked neighbour n with t in range, and no
\* contradictory hint, is returned with the value t and contradiction = false.
C8_SingleUnknown_AsStated ==
  out # Null =>
    LET satisfiable == HintsSatisfiable(input)
    IN  \A p \in AllPos, n \in AllPos :
          (SingleUnknown(input, p, n) /\ satisfiable) =>
            (~Res.contradiction /\ ReturnedAs(Res, n, TargetOf(input, p)))

\* C8 amended: under the same conditions the neighbour is returned with the
\* value t unless a contradiction is reported, and none is reported when some
\* assignment satisfies the visible hints and the declared totals together.
C8_SingleUnknown ==
  out # Null =>
    LET satisfiable == HintsSatisfiable(input)
        consistent == Completions(input) # {}
    IN  \A p \in AllPos, n \in AllPos :
          (SingleUnknown(input, p, n) /\ satisfiable) =>
            /\ Res.contradiction \/ ReturnedAs(Res, n, TargetOf(input, p))
            /\ consistent => ~Res.contradiction

\* A mark of a non-zero t returned for a single hidden unmarked neighbour, with
\* totals declared.
C8_Witness ==
  /\ out # Null /\ ~IsNull(input.groupTotals)
  /\ \E p \in AllPos, n \in AllPos :
       /\ SingleUnknown(input, p, n) /\ HintsSatisfiable(input)
       /\ TargetOf(input, p) # 0
       /\ ~Res.contradiction /\ ReturnedAs(Res, n, TargetOf(input, p))

\* The totals-only case: totals are declared and no hidden unmarked cell is
\* next to an opened hint cell.
TotalsOnly(inp) ==
  /\ ~IsNull(inp.groupTotals)
  /\ \A p \in AllPos :
       (inp.cells[p].opened /\ ~IsNull(inp.cells[p].hint)) => UnknownNeighbours(inp, p) = {}

NonZeroOf(inp) == (MinOf(inp)..inp.maxMinesPerCell) \ {0}

\* The remaining non-zero count: the totals minus the fixed cells.
RemainingNonZero(inp) ==
  LET nz == SortedSeq(NonZeroOf(inp))
  IN  SeqSum([i \in 1..Len(nz) |-> RemainingOf(inp, nz[i])])

\* The remaining count is as large as the number of hidden unmarked cells and
\* all of it belongs to the value v.
AllOfValue(inp, v) ==
  /\ RemainingNonZero(inp) # 0
  /\ RemainingNonZero(inp) = Len(unknownPositionsOf(inp.cells))
  /\ RemainingOf(inp, v) = RemainingNonZero(inp)
  /\ \A w \in NonZeroOf(inp) \ {v} : RemainingOf(inp, w) = 0

\* The three cases of the totals-only deduction for the result r.
TotalsCases(inp, r) ==
  LET U == Range(unknownPositionsOf(inp.cells))
  IN  IF RemainingNonZero(inp) = 0
      THEN Range(r.opens) = U /\ Len(r.marks) = 0
      ELSE IF \E v \in NonZeroOf(inp) : AllOfValue(inp, v)
      THEN /\ Len(r.opens) = 0
           /\ \A v \in NonZeroOf(inp) :
                AllOfValue(inp, v) => Range(r.marks) = {[pos |-> p, value |-> v] : p \in U}
      ELSE r.stalled /\ Len(r.opens) = 0 /\ Len(r.marks) = 0

\* C9 as stated: in the totals-only case solveLogically opens every hidden
\* unmarked cell if the remaining count is 0, marks every one with v if the
\* remaining count equals their number and all belongs to v, and otherwise
\* returns stalled = true with no moves.
C9_TotalsOnly_AsStated ==
  (out # Null /\ TotalsOnly(input)) => TotalsCases(input, Res)

\* C9 amended: the same, unless a contradiction is reported, in which case the
\* result is stalled with no moves; none is reported when some assignment
\* satisfies the visible hints and the declared totals.
C9_TotalsOnly ==
  (out # Null /\ TotalsOnly(input)) =>
    /\ IF Res.contradiction
       THEN Res.stalled /\ Len(Res.opens) = 0 /\ Len(Res.marks) = 0
       ELSE TotalsCases(input, Res)
    /\ Completions(input) # {} => ~Res.contradiction

\* The totals-only pass marked every hidden unmarked cell, at least two.
C9_Witness ==
  /\ out # Null /\ TotalsOnly(input)
  /\ Val(out).pass = "totals"
  /\ Len(Res.marks) >= 2
  /\ TotalsCases(input, Res)

\* C16: in every result stalled is true exactly when opens and marks are both
\* empty; so every result with contradiction = true is stalled, carries a
\* reason and contains no moves.
C16_FlagsConsistent ==
  out # Null =>
    /\ Res.stalled <=> (Res.opens = <<>> /\ Res.marks = <<>>)
    /\ Res.contradiction =>
         /\ Res.stalled
         /\ Res.reason.msg # ""
         /\ Res.opens = <<>> /\ Res.marks = <<>>

\* A contradiction was returned.
C16_Witness == out # Null /\ Res.contradiction /\ Res.stalled /\ Res.reason.msg # ""

\* A result with moves was returned (companion of C16).
MovesReturned == out # Null /\ ~Res.stalled /\ MovesOf(Res) # {}

\* The results of solveComponentExactly, run with the node budget b on every
\* component of the snapshot inp, when solveLogically reaches the component
\* pass (solver.ts 46-156, 760-788).
ComponentRuns(inp, b) ==
  LET max == inp.maxMinesPerCell
      min == IF inp.negativeMines THEN -max ELSE 0
      nonZeroValues == buildNonZeroValues(min, max)
      useGlobalCounts == ~IsNull(inp.groupTotals)
      groupTotals == IF useGlobalCounts
                     THEN Some(buildGroupTotals(nonZeroValues, inp.groupTotals)) ELSE Null
      runs(built, propagation) ==
        LET eqIds == [e \in 1..Len(built.equations) |-> e]
            eqByVar == [v \in Range(built.constrainedVarIndices) |->
                          SelectSeq(eqIds, LAMBDA e : v \in Range(built.equations[e].vars))]
            run(cs) ==
              solveComponentExactly(
                cs.compVars, cs.compEqs, built.equations,
                [k \in 1..Len(cs.compVars) |-> MapGet(propagation.domains, cs.compVars[k], <<>>)],
                b)
        IN  IF propagation.contradiction \/ Len(propagation.forced) > 0
               \/ Len(built.equations) = 0
            THEN {}
            ELSE {run(CollectComponent([queue |-> <<v>>, visited |-> {v},
                                        compVars |-> <<>>, compEqs |-> <<>>],
                                       eqByVar, built.equations)) :
                    v \in Range(built.constrainedVarIndices)}
      passes(built, remainingCounts) ==
        LET nzLeft == SelectSeq(nonZeroValues, LAMBDA v : MapGet(remainingCounts, v, 0) > 0)
            allowed == uniqueSorted(IF useGlobalCounts THEN <<0>> \o nzLeft
                                    ELSE buildDomain(min, max))
        IN  runs(built, inferForcedByBounds(built.constrainedVarIndices, built.equations,
                                            allowed))
      counted(built) ==
        IF ~IsNull(built.contradiction) THEN {}
        ELSE passes(built,
                    IF useGlobalCounts
                    THEN [v \in Range(nonZeroValues) |->
                            MapGet(Val(groupTotals), v, 0) - MapGet(built.fixedCounts, v, 0)]
                    ELSE <<>>)
  IN  counted(buildState(inp, groupTotals))

\* C17: a search cut off by its node budget forces nothing: a component whose
\* enumeration did not finish yields no forced cells, and an aborted
\* whole-board search yields empty opens and marks.
C17_CutOffForcesNothing ==
  out # Null =>
    /\ \A b \in 0..MaxBudget :
         \A r \in ComponentRuns(input, b) : ~r.complete => r.forced = <<>>
    /\ Val(out).aborted => (Res.opens = <<>> /\ Res.marks = <<>>)

\* The whole-board search was aborted after it had found a solution, and a
\* component of the same snapshot is cut off after one.
C17_Witness ==
  /\ out # Null
  /\ Val(out).aborted
  /\ ~Res.contradiction
  /\ \E b \in 0..MaxBudget :
       \E r \in ComponentRuns(input, b) : ~r.complete /\ ~r.contradiction

\* Totals are declared and the cells flagged or opened with some non-zero
\* value are more than the total declared for it.
FixedExceedsTotal(inp) ==
  /\ ~IsNull(inp.groupTotals)
  /\ \E v \in NonZeroOf(inp) : RemainingOf(inp, v) < 0

\* C18: when group totals are supplied and, for some non-zero v, the hidden
\* cells flagged v plus the opened cells of mine count v exceed the declared
\* total of v (0 when absent), solveLogically returns contradiction = true
\* with no opens and no marks.
C18_FixedAboveTotal ==
  (out # Null /\ FixedExceedsTotal(input)) =>
    /\ Res.contradiction
    /\ Res.opens = <<>>
    /\ Res.marks = <<>>

\* The contradiction was found by comparing the fixed counts with the totals.
C18_Witness ==
  /\ out # Null
  /\ FixedExceedsTotal(input)
  /\ Res.contradiction
  /\ Res.reason.msg = "Too many fixed cells for group."

\* C19: the whole-board search is entered only when the caller supplied group
\* totals and neither propagation nor the component pass forced a cell; when
\* no totals are supplied the result comes from propagation and the component
\* pass alone and the whole-board search consumes no node.
C19_SearchOnlyWithTotals ==
  out # Null =>
    /\ Val(out).searchNodes > 0 => ~IsNull(input.groupTotals)
    /\ IsNull(input.groupTotals) =>
         /\ Val(out).pass \in {"build", "bounds", "components", "none"}
         /\ Val(out).searchNodes = 0

\* The search is entered only after propagation and every component forced
\* nothing (companion of C19).
SearchAfterNothingForced ==
  (out # Null /\ Val(out).searchNodes > 0) =>
    /\ ComponentRuns(input, MIN_COMPONENT_NODES) # {}
    /\ \A r \in ComponentRuns(input, MIN_COMPONENT_NODES) :
         r.forced = <<>> /\ ~r.contradiction

\* The moves the forced maps of the component runs rs stand for.
MovesOfRuns(inp, rs) ==
  UNION {{[pos |-> unknownPositionsOf(inp.cells)[r.forced[k][1]], value |-> r.forced[k][2]] :
            k \in 1..Len(r.forced)} : r \in rs}

\* The result in out is the one a component pass gives when each component's
\* search is limited to N nodes.
ComponentPassUnder(N) ==
  /\ Val(out).pass = "components" =>
       IF Res.contradiction THEN \E r \in ComponentRuns(input, N) : r.contradiction
       ELSE /\ Res.complete <=> \A r \in ComponentRuns(input, N) : r.complete
            /\ MovesOf(Res) = MovesOfRuns(input, ComponentRuns(input, N))
  /\ Val(out).pass \in {"none", "totals", "search"} =>
       \A r \in ComponentRuns(input, N) : ~r.contradiction /\ r.forced = <<>>

SearchEnds(inp, b, wb) ==
  LET max == inp.maxMinesPerCell
      min == IF inp.negativeMines THEN -max ELSE 0
      nonZeroValues == buildNonZeroValues(min, max)
      useGlobalCounts == ~IsNull(inp.groupTotals)
      groupTotals == IF useGlobalCounts
                     THEN Some(buildGroupTotals(nonZeroValues, inp.groupTotals)) ELSE Null
      nothing == [components |-> {}, whole |-> {}]
      runs(built, remainingCounts, allowed, propagation) ==
        LET eqIds == [e \in 1..Len(built.equations) |-> e]
            eqByVar == [v \in Range(built.constrainedVarIndices) |->
                          SelectSeq(eqIds, LAMBDA e : v \in Range(built.equations[e].vars))]
            run(cs) ==
              componentSearch(
                cs.compVars, cs.compEqs, built.equations,
                [k \in 1..Len(cs.compVars) |-> MapGet(propagation.domains, cs.compVars[k], <<>>)],
                b)
        IN  IF propagation.contradiction \/ Len(propagation.forced) > 0
               \/ Len(built.equations) = 0 \/ Len(built.constrainedVarIndices) = 0
            THEN nothing
            ELSE [components |->
                    {run(CollectComponent([queue |-> <<v>>, visited |-> {v},
                                           compVars |-> <<>>, compEqs |-> <<>>],
                                          eqByVar, built.equations)) :
                       v \in Range(built.constrainedVarIndices)},
                  whole |->
                    {wholeBoardDfs(built, propagation, allowed, remainingCounts,
                                   nonZeroValues, useGlobalCounts, wb)}]
      passes(built, remainingCounts) ==
        LET nzLeft == SelectSeq(nonZeroValues, LAMBDA v : MapGet(remainingCounts, v, 0) > 0)
            allowed(a) ==
              runs(built, remainingCounts, a,
                   inferForcedByBounds(built.constrainedVarIndices, built.equations, a))
        IN  allowed(uniqueSorted(IF useGlobalCounts THEN <<0>> \o nzLeft
                                 ELSE buildDomain(min, max)))
      counted(built) ==
        IF ~IsNull(built.contradiction) THEN nothing
        ELSE passes(built,
                    IF useGlobalCounts
                    THEN [v \in Range(nonZeroValues) |->
                            MapGet(Val(groupTotals), v, 0) - MapGet(built.fixedCounts, v, 0)]
                    ELSE <<>>)
  IN  counted(buildState(inp, groupTotals))

\* A search that entered nodes nodes under the budget b, cut telling whether it
\* was cut off, left every variable unassigned; it entered at most b + 1 nodes,
\* and exactly b + 1 when it was cut off.
WithinBudget(assign, nodes, cut, b) ==
  /\ nodes <= b + 1
  /\ cut <=> nodes = b + 1
  /\ \A i \in DOMAIN assign : IsNull(assign[i])

\* C21: in the per-component and in the whole-board search the number of nodes
\* entered never exceeds the budget plus one; once the budget is exceeded no
\* further value is assigned, every assignment made is reverted, and the
\* search ends.
C21_NodeBudget ==
  out # Null =>
    \A b \in 0..MaxBudget :
      LET ends(e) ==
            /\ \A s \in e.components : WithinBudget(s.assign, s.nodes, ~s.complete, b)
            /\ \A s \in e.whole :
                 /\ WithinBudget(s.assign, s.searchNodes, s.aborted, b)
                 /\ s.lateAssigns = 0
                 /\ s.remCounts = (CHOOSE t \in SearchEnds(input, b, 0).whole : TRUE).remCounts
      IN  ends(SearchEnds(input, b, b))

\* Both searches were cut off with a value assigned: each had entered at least
\* two nodes when its budget ran out.
C21_Witness ==
  /\ out # Null
  /\ \E b \in 2..MaxBudget :
       LET ends(e) ==
             /\ \E s \in e.components : ~s.complete /\ s.nodes = b + 1
             /\ \E s \in e.whole : s.aborted /\ s.searchNodes = b + 1
       IN  ends(SearchEnds(input, b, b))

\* The result is a stall that claims to be final.
FinalStall == out # Null /\ Res.stalled /\ ~Res.contradiction /\ Res.complete

\* C26: when solveLogically returns stalled = true with contradiction = false
\* and complete = true, no hidden unmarked cell, next to a hint or not, has
\* the same value in every assignment consistent with the visible hints and,
\* when declared, the group totals: every such cell takes two different values
\* in two consistent assignments.
C26_StallIsComplete ==
  FinalStall =>
    \A p \in Range(unknownPositionsOf(input.cells)) :
      \E a \in Completions(input), b \in Completions(input) : a[p] # b[p]

\* A final stall of the whole-board search under declared totals: the hidden
\* unmarked cells next to a hint have several consistent values.
C26_Witness ==
  /\ FinalStall
  /\ Val(out).pass = "search" /\ Val(out).searchNodes > 0
  /\ ~IsNull(input.groupTotals)
  /\ \E p \in Range(unknownPositionsOf(input.cells)) :
       \E q \in AllPos : input.cells[q].opened /\ p \in UnknownNeighbours(input, q)

\* A final stall under declared totals on a board with a hidden unmarked cell
\* next to no hint (companion of C26).
FinalStallWithFreeCell ==
  /\ FinalStall
  /\ ~IsNull(input.groupTotals)
  /\ \E p \in Range(unknownPositionsOf(input.cells)) :
       \A q \in AllPos : input.cells[q].opened => p \notin UnknownNeighbours(input, q)

\* The positions of the moves of r, opens first, in the order returned.
MovePositions(r) == r.opens \o [i \in 1..Len(r.marks) |-> r.marks[i].pos]

\* C27: in every result of solveLogically each position in opens and marks is
\* a cell that is hidden with markerCount 0 in the input snapshot, no position
\* occurs twice across opens and marks together, and every mark value is
\* non-zero and lies in [min, max].
C27_WellFormedMoves ==
  out # Null =>
    LET ps == MovePositions(Res)
    IN  /\ \A i \in 1..Len(ps) : IsUnknown(input.cells, ps[i])
        /\ \A i \in 1..Len(ps), j \in 1..Len(ps) : i # j => ps[i] # ps[j]
        /\ \A i \in 1..Len(Res.marks) :
             /\ Res.marks[i].value # 0
             /\ Res.marks[i].value >= MinOf(input)
             /\ Res.marks[i].value <= input.maxMinesPerCell

\* A result with an open and a negative mark.
C27_Witness ==
  /\ out # Null
  /\ Len(Res.opens) >= 1
  /\ \E i \in 1..Len(Res.marks) : Res.marks[i].value < 0
  /\ \E p \in AllPos : input.cells[p].opened

\* A result with a negative mark on a board with a flagged cell (companion of
\* C27).
MarksBesideFlag ==
  /\ out # Null
  /\ \E i \in 1..Len(Res.marks) : Res.marks[i].value < 0
  /\ \E p \in AllPos : ~input.cells[p].opened /\ input.cells[p].markerCount # 0

\* ------------------------------------------------------- game specification
\* The configurations explored: every one with at most MaxStackedTotal mines;
\* up to MaxMinesTotal for boards whose cells hold at most one mine; and
\* MaxMinesTotal with negative mines, the smallest total that places one
\* (floor(minesTotal * 0.3) >= 1).
Configs ==
  {c \in [maxMinesPerCell : 1..MaxPerCell, negativeMines : BOOLEAN,
          minesTotal : 0..MaxMinesTotal, safeFirstClick : BOOLEAN] :
     \/ c.minesTotal <= MaxStackedTotal
     \/ c.maxMinesPerCell = 1
     \/ c.negativeMines /\ c.minesTotal = MaxMinesTotal}

\* The positions a caller passes: every cell and two positions off the board.
ClickPos == AllPos \cup {<<Rows, Cols>>, <<-1, 0>>}

ThisGame ==
  [grid |-> grid, status |-> status, explodedPos |-> explodedPos,
   firstClick |-> firstClick, safeCellCount |-> safeCellCount, openedCount |-> openedCount]

Becomes(G) ==
  /\ grid' = G.grid
  /\ status' = G.status
  /\ explodedPos' = G.explodedPos
  /\ firstClick' = G.firstClick
  /\ safeCellCount' = G.safeCellCount
  /\ openedCount' = G.openedCount

\* new Game(config)
Init ==
  /\ cfg \in Configs
  /\ \E G \in NewGames(cfg) :
       /\ grid = G.grid
       /\ status = G.status
       /\ explodedPos = G.explodedPos
       /\ firstClick = G.firstClick
       /\ safeCellCount = G.safeCellCount
       /\ openedCount = G.openedCount
  /\ input = Null
  /\ out = Null
  /\ forcedBefore = <<>>

NoMines == [p \in AllPos |-> 0]

\* The boards placeMines may produce in a call that runs initBoard at the
\* position at; a call that does not run it places nothing.
Placements(at) ==
  IF IsNull(at) THEN {NoMines}
  ELSE placeMines(cfg, FirstClickExclude(Val(at)[1], Val(at)[2]))

\* The player's markers are capped: a cell may be cycled while it is marked or
\* fewer than MaxMarked cells are.
MarkerBound(p) ==
  IF ~inBounds(p[1], p[2]) THEN TRUE
  ELSE IF grid[p].markerCount # 0 THEN TRUE
  ELSE Cardinality({q \in AllPos : grid[q].markerCount # 0}) < MaxMarked

Open(p) ==
  /\ \E placed \in Placements(open(cfg, ThisGame, p[1], p[2], NoMines).initAt) :
       Becomes(open(cfg, ThisGame, p[1], p[2], placed).g)
  /\ UNCHANGED <<cfg, input, out, forcedBefore>>

CycleMarker(p) ==
  /\ MarkerBound(p)
  /\ Becomes(cycleMarker(cfg, ThisGame, p[1], p[2]))
  /\ UNCHANGED <<cfg, input, out, forcedBefore>>

CycleMarkerDown(p) ==
  /\ MarkerBound(p)
  /\ Becomes(cycleMarkerDown(cfg, ThisGame, p[1], p[2]))
  /\ UNCHANGED <<cfg, input, out, forcedBefore>>

SolveLogicalStep(maxSearchNodes) ==
  /\ \E placed \in Placements(solveLogicalStep(cfg, ThisGame, maxSearchNodes, NoMines).initAt) :
       Becomes(solveLogicalStep(cfg, ThisGame, maxSearchNodes, placed).g)
  /\ UNCHANGED <<cfg, input, out, forcedBefore>>

SolveLogicalUntilStuck(maxSteps, maxSearchNodes) ==
  /\ \E placed \in Placements(solveLogicalUntilStuck(cfg, ThisGame, maxSteps,
                                                     maxSearchNodes, NoMines).initAt) :
       Becomes(solveLogicalUntilStuck(cfg, ThisGame, maxSteps, maxSearchNodes, placed).g)
  /\ UNCHANGED <<cfg, input, out, forcedBefore>>

\* The budgets a caller of the game's solver methods passes: the default and a
\* small one.
GameBudgets == {Null, Some(1)}

ChordOpen(p) ==
  /\ \E placed \in Placements(chordOpen(cfg, ThisGame, p[1], p[2], NoMines).initAt) :
       Becomes(chordOpen(cfg, ThisGame, p[1], p[2], placed).g)
  /\ UNCHANGED <<cfg, input, out, forcedBefore>>

ApplyHint(p) ==
  /\ \E placed \in Placements(applyHint(cfg, ThisGame, p[1], p[2], NoMines).initAt) :
       Becomes(applyHint(cfg, ThisGame, p[1], p[2], placed).g)
  /\ UNCHANGED <<cfg, input, out, forcedBefore>>

GiveUp ==
  /\ Becomes(giveUp(ThisGame))
  /\ UNCHANGED <<cfg, input, out, forcedBefore>>

GuessEducated ==
  /\ \E placed \in Placements(guessEducated(cfg, ThisGame, NoMines).initAt) :
       Becomes(guessEducated(cfg, ThisGame, placed).g)
  /\ UNCHANGED <<cfg, input, out, forcedBefore>>

\* The cycle limits a caller of solveAutoWithGuesses passes.
CycleLimits == {1, DEFAULT_MAX_CYCLES}

SolveAutoWithGuesses(maxCycles, maxLogicalStepsPerCycle, maxSearchNodes) ==
  /\ \E placed \in Placements(solveAutoWithGuesses(cfg, ThisGame, maxCycles,
                                                   maxLogicalStepsPerCycle, maxSearchNodes,
                                                   NoMines).initAt) :
       Becomes(solveAutoWithGuesses(cfg, ThisGame, maxCycles, maxLogicalStepsPerCycle,
                                    maxSearchNodes, placed).g)
  /\ UNCHANGED <<cfg, input, out, forcedBefore>>

Next ==
  \/ \E p \in ClickPos : Open(p)
  \/ \E p \in ClickPos : CycleMarker(p)
  \/ \E p \in ClickPos : CycleMarkerDown(p)
  \/ \E p \in ClickPos : ChordOpen(p)
  \/ \E p \in ClickPos : ApplyHint(p)
  \/ GiveUp
  \/ \E b \in GameBudgets : SolveLogicalStep(b)
  \/ \E k \in {1, DEFAULT_MAX_STEPS}, b \in GameBudgets : SolveLogicalUntilStuck(k, b)
  \/ GuessEducated
  \/ \E k \in CycleLimits : SolveAutoWithGuesses(k, DEFAULT_MAX_LOGICAL_STEPS, Null)

Spec == Init /\ [][Next]_vars

\* ------------------------------------------------- placeMines specification
\* placeMines(grid, config, excludePositions) on an empty grid: input holds
\* the excluded positions, grid the result once out is set.
PlaceConfigs ==
  [maxMinesPerCell : 0..MaxCapInput, negativeMines : BOOLEAN,
   minesTotal : 0..MaxPlaceTotal, safeFirstClick : {FALSE}]

InitPlace ==
  /\ cfg \in PlaceConfigs
  /\ input \in SUBSET AllPos
  /\ grid = createEmptyGrid
  /\ out = Null
  /\ status = "playing"
  /\ explodedPos = Null
  /\ firstClick = TRUE
  /\ safeCellCount = 0
  /\ openedCount = 0
  /\ forcedBefore = <<>>

PlaceMines ==
  /\ out = Null
  /\ \E m \in placeMines(cfg, input) :
       grid' = [p \in AllPos |-> Cell(m[p], FALSE, 0, 0)]
  /\ out' = Some("placed")
  /\ UNCHANGED <<cfg, status, explodedPos, firstClick, safeCellCount, openedCount,
                 input, forcedBefore>>

SpecPlace == InitPlace /\ [][PlaceMines]_vars

\* The sum of the mine counts of the board.
MineSum == SeqSum([i \in 1..Len(PosSeq) |-> grid[PosSeq[i]].mineCount])

\* C15: after placeMines, for every choice of the random generator, no cell
\* holds more than maxMinesPerCell (capped to 1..6) mines of either sign, every
\* excluded position has mine count 0, and without negative mines the counts
\* sum to minesTotal whenever minesTotal <= (non-excluded cells) * cap.
C15_PlaceMinesPost ==
  out # Null =>
    /\ \A p \in AllPos : Abs(grid[p].mineCount) <= maxMinesPerCellCapped(cfg)
    /\ maxMinesPerCellCapped(cfg) \in 1..6
    /\ \A p \in input : grid[p].mineCount = 0
    /\ (~cfg.negativeMines
          /\ cfg.minesTotal <= Cardinality(AllPos \ input) * maxMinesPerCellCapped(cfg))
         => MineSum = cfg.minesTotal

\* A placement with an excluded cell, a stacked cell and every requested mine
\* placed.
C15_Witness ==
  /\ out # Null
  /\ ~cfg.negativeMines
  /\ input # {}
  /\ \E p \in AllPos : grid[p].mineCount >= 2
  /\ cfg.minesTotal = Cardinality(AllPos \ input) * maxMinesPerCellCapped(cfg)
  /\ MineSum = cfg.minesTotal

\* ------------------------------------------------------------ Game properties
\* Every marker equals the true mine count of its cell.
HonestBoard ==
  \A p \in AllPos : grid[p].markerCount # 0 => grid[p].markerCount = grid[p].mineCount

\* The step is a call of solveLogicalStep or of solveLogicalUntilStuck.
SolverStepTaken ==
  \/ \E b \in GameBudgets : SolveLogicalStep(b)
  \/ \E k \in {1, DEFAULT_MAX_STEPS}, b \in GameBudgets : SolveLogicalUntilStuck(k, b)

\* C4: from a Playing state in which every marker equals the true mine count of
\* its cell (safeFirstClick on or off, before or after the first click),
\* solveLogicalStep and solveLogicalUntilStuck never open a cell whose mine
\* count is non-zero and never change the status to Lost.
C4_SolverNeverLoses ==
  [][(status = "playing" /\ HonestBoard /\ SolverStepTaken)
       => /\ status' # "lost"
          /\ \A p \in AllPos : (grid'[p].opened /\ ~grid[p].opened) => grid'[p].mineCount = 0]_vars

\* C10: every cell's markerCount lies in minMarker..maxMarker: in
\* 0..maxMinesPerCell when negativeMines is false (so no marker is negative and
\* a marker of 1 cycled down is 0), in -maxMinesPerCell..maxMinesPerCell when
\* it is true.
C10_MarkerRange ==
  \A p \in AllPos :
    /\ grid[p].markerCount >= minMarker(cfg)
    /\ grid[p].markerCount <= maxMarker(cfg)

\* The board was placed by the engine: the constructor did it, or the first
\* click has.
BoardPlaced == ~cfg.safeFirstClick \/ ~firstClick

AllSafeOpened(G) == \A p \in AllPos : G.grid[p].mineCount = 0 => G.grid[p].opened

NoMineOpened(G) == \A p \in AllPos : G.grid[p].mineCount # 0 => ~G.grid[p].opened

\* The call that led from G to G2 opened no mined cell.
OpenedNoMine(G, G2) ==
  \A p \in AllPos : (G2.grid[p].opened /\ G2.grid[p].mineCount # 0) => G.grid[p].opened

\* The games one call of open, chordOpen or applyHint can leave behind.
OpenResults ==
  UNION {{open(cfg, ThisGame, p[1], p[2], placed).g :
            placed \in Placements(open(cfg, ThisGame, p[1], p[2], NoMines).initAt)} :
         p \in ClickPos}

ChordResults ==
  UNION {{chordOpen(cfg, ThisGame, p[1], p[2], placed).g :
            placed \in Placements(chordOpen(cfg, ThisGame, p[1], p[2], NoMines).initAt)} :
         p \in ClickPos}

HintResults ==
  UNION {{applyHint(cfg, ThisGame, p[1], p[2], placed).g :
            placed \in Placements(applyHint(cfg, ThisGame, p[1], p[2], NoMines).initAt)} :
         p \in ClickPos}

WonMeansCleared ==
  /\ (BoardPlaced /\ status = "won") => (AllSafeOpened(ThisGame) /\ NoMineOpened(ThisGame))
  /\ openedCount = Cardinality({p \in AllPos : grid[p].opened})

\* C11: in every reachable state of a game whose board was placed, status Won
\* implies that every zero-mine cell is opened and no mined cell is, and
\* openedCount is the number of opened cells; and every call of open,
\* chordOpen or applyHint that leaves every zero-mine cell opened without
\* opening a mine leaves the status Won.
C11_WinDetection ==
  /\ WonMeansCleared
  /\ \A G2 \in OpenResults \cup ChordResults \cup HintResults :
       (AllSafeOpened(G2) /\ OpenedNoMine(ThisGame, G2)) => G2.status = "won"

\* The same for the boards that have a zero-mine cell (companion of C11).
WinDetectedOnBoardsWithSafeCells ==
  /\ WonMeansCleared
  /\ \A G2 \in OpenResults \cup ChordResults \cup HintResults :
       (G2.safeCellCount > 0 /\ AllSafeOpened(G2) /\ OpenedNoMine(ThisGame, G2))
         => G2.status = "won"

\* The cells a call that led from G to G2 opened.
NewlyOpened(G, G2) == {q \in AllPos : G2.grid[q].opened /\ ~G.grid[q].opened}

\* The cells reached from the cells of S through opened cells of hint 0.
RECURSIVE ThroughZeroHints(_, _)
ThroughZeroHints(G2, S) ==
  LET more == S \cup UNION {Range(boardNeighbours(q[1], q[2], Rows, Cols)) :
                              q \in {x \in S : G2.grid[x].opened /\ G2.grid[x].hint = 0}}
  IN  IF more = S THEN S ELSE ThroughZeroHints(G2, more)

\* What C12 says of the call open(p) that led from G to G2.
OpenOutcome(G, G2, p) ==
  IF G2.grid[p].mineCount # 0
  THEN /\ G2.status = "lost"
       /\ G2.explodedPos = Some(p)
       /\ NewlyOpened(G, G2) = {p}
  ELSE /\ G2.status # "lost"
       /\ \A q \in NewlyOpened(G, G2) :
            /\ G2.grid[q].mineCount = 0
            /\ G.grid[q].markerCount = 0
            /\ q \in ThroughZeroHints(G2, {p})

\* The clicks C12 is about: a hidden unmarked cell of a game being played.
HiddenUnmarked ==
  {p \in AllPos : status = "playing" /\ ~grid[p].opened /\ grid[p].markerCount = 0}

\* C12: open(r, c) while Playing on a hidden unmarked cell: if the cell's mine
\* count is non-zero the status becomes Lost, explodedPos is (r, c) and only
\* that cell is opened; otherwise no cell with a non-zero mine count or a
\* non-zero marker is opened, the opening spreads only through cells of hint
\* 0, and the status does not become Lost.
C12_OpenOutcome ==
  \A p \in HiddenUnmarked :
    \A placed \in Placements(open(cfg, ThisGame, p[1], p[2], NoMines).initAt) :
      OpenOutcome(ThisGame, open(cfg, ThisGame, p[1], p[2], placed).g, p)

\* The same once the board is placed (companion of C12).
OpenOutcomeOnPlacedBoard ==
  BoardPlaced =>
    \A p \in HiddenUnmarked :
      OpenOutcome(ThisGame, open(cfg, ThisGame, p[1], p[2], NoMines).g, p)

\* The clicks C13 is about: any cell, while the first click of a safeFirstClick
\* game is still to come.
FirstClicks ==
  {p \in AllPos : cfg.safeFirstClick /\ firstClick /\ status = "playing"}

\* C13: with safeFirstClick on, the first open(r, c) places the board so that
\* the clicked cell and all its neighbours have mine count 0, and it does not
\* end in Lost.
C13_SafeFirstClick ==
  \A p \in FirstClicks :
    \A placed \in Placements(open(cfg, ThisGame, p[1], p[2], NoMines).initAt) :
      LET G2 == open(cfg, ThisGame, p[1], p[2], placed).g
      IN  /\ ~G2.firstClick
          /\ G2.grid[p].mineCount = 0
          /\ G2.grid[p].opened
          /\ \A q \in Range(boardNeighbours(p[1], p[2], Rows, Cols)) : G2.grid[q].mineCount = 0
          /\ G2.status # "lost"

\* A first click whose initBoard places a mine.
C13_Witness ==
  \E p \in FirstClicks :
    \E placed \in Placements(open(cfg, ThisGame, p[1], p[2], NoMines).initAt) :
      /\ open(cfg, ThisGame, p[1], p[2], NoMines).initAt = Some(p)
      /\ \E q \in AllPos : open(cfg, ThisGame, p[1], p[2], placed).g.grid[q].mineCount # 0

\* The hidden neighbours of p.
HiddenNeighbours(p) == {n \in Range(boardNeighbours(p[1], p[2], Rows, Cols)) : ~grid[n].opened}

\* The sum of the markers on the hidden neighbours of p.
RECURSIVE MarkerSum(_)
MarkerSum(S) ==
  IF S = {} THEN 0
  ELSE LET n == CHOOSE x \in S : TRUE IN grid[n].markerCount + MarkerSum(S \ {n})

\* The cell at p is opened and its hint equals the marker sum around it.
ChordMatches(p) ==
  /\ inBounds(p[1], p[2])
  /\ grid[p].opened
  /\ MarkerSum(HiddenNeighbours(p)) = grid[p].hint

\* C14: chordOpen(r, c) leaves the board and the status unchanged unless the
\* cell is opened and the markers on its hidden neighbours sum to its hint;
\* when they do it opens only hidden unmarked neighbours and what their flood
\* fill reaches, and every marked neighbour stays closed with its marker.
C14_ChordFrame ==
  \A p \in ClickPos :
    LET G2 == chordOpen(cfg, ThisGame, p[1], p[2], NoMines).g
    IN  IF ~ChordMatches(p) THEN G2 = ThisGame
        ELSE /\ NewlyOpened(ThisGame, G2) \subseteq
                  ThroughZeroHints(G2, {n \in HiddenNeighbours(p) : grid[n].markerCount = 0})
             /\ \A n \in HiddenNeighbours(p) :
                  grid[n].markerCount # 0
                    => ~G2.grid[n].opened /\ G2.grid[n].markerCount = grid[n].markerCount
             /\ \A q \in AllPos : G2.grid[q].markerCount = grid[q].markerCount

\* A chord on a cell with a marked neighbour that opens another neighbour.
C14_Witness ==
  \E p \in AllPos :
    /\ status = "playing"
    /\ ChordMatches(p)
    /\ \E n \in HiddenNeighbours(p) : grid[n].markerCount # 0
    /\ NewlyOpened(ThisGame, chordOpen(cfg, ThisGame, p[1], p[2], NoMines).g) # {}

\* The same for the snapshot solveLogicalStep takes of the game, which after a
\* loss shows opened mines (companion of C18).
FixedAboveTotalInGame ==
  FixedExceedsTotal(StepInput(cfg, ThisGame, Null))
    => /\ solveLogically(StepInput(cfg, ThisGame, Null)).contradiction
       /\ MovesOf(solveLogically(StepInput(cfg, ThisGame, Null))) = {}

\* A lost game whose opened mine and markers exceed a total.
FixedAboveTotalAfterLoss ==
  /\ status = "lost"
  /\ explodedPos # Null
  /\ FixedExceedsTotal(StepInput(cfg, ThisGame, Null))

\* What one call of solveLogicalStep can return in this state.
StepRuns ==
  UNION {{solveLogicalStep(cfg, ThisGame, b, placed) :
            placed \in Placements(solveLogicalStep(cfg, ThisGame, b, NoMines).initAt)} :
         b \in GameBudgets}

\* The cells a call that led from G to G2 marked.
NewlyMarked(G, G2) ==
  {q \in AllPos : G.grid[q].markerCount = 0 /\ G2.grid[q].markerCount # 0}

\* What C22 says of the call of solveLogicalStep that led from G to s.g.
StepApplied(G, s) ==
  LET marked == {s.result.marks[i].pos : i \in 1..Len(s.result.marks)}
  IN  IF s.result.contradiction \/ ~s.result.complete
      THEN s.g = G /\ s.openedCount = 0 /\ s.markedCount = 0
      ELSE /\ \A i \in 1..Len(s.result.marks) :
                hiddenUnmarked(G, s.result.marks[i].pos)
                  => s.g.grid[s.result.marks[i].pos].markerCount = s.result.marks[i].value
           /\ \A i \in 1..Len(s.result.opens) :
                (hiddenUnmarked(G, s.result.opens[i]) /\ s.result.opens[i] \notin marked)
                  => s.g.grid[s.result.opens[i]].opened \/ s.g.status # "playing"
           /\ NewlyMarked(G, s.g) \subseteq marked
           /\ s.openedCount = Cardinality(NewlyOpened(G, s.g))
           /\ s.markedCount = Cardinality(NewlyMarked(G, s.g))

StepRefused ==
  /\ BoardPlaced /\ status = "playing"
  /\ \E s \in StepRuns : s.result.contradiction \/ ~s.result.complete

\* A step on a placed board whose calls of open opened more cells than the
\* solver returned: the flood fill is counted (companion of C22).
StepCountsFloodFill ==
  /\ BoardPlaced /\ status = "playing"
  /\ \E s \in StepRuns :
       /\ ~s.result.contradiction /\ s.result.complete
       /\ s.openedCount > Len(s.result.opens)

\* The step limits a caller of solveLogicalUntilStuck passes.
StepLimits == {0, 1, 2, DEFAULT_MAX_STEPS}

\* What C23 says of the run R of solveLogicalUntilStuck(maxSteps, b).
UntilStuckStops(R, maxSteps, b) ==
  LET ok == ~R.last.contradiction /\ R.last.complete
      again(s) == s.openedCount = 0 /\ s.markedCount = 0 /\ s.result = R.last
  IN  /\ R.calls <= maxSteps
      /\ R.steps = R.productive
      /\ R.calls \in {R.steps, R.steps + 1}
      /\ \/ R.steps = maxSteps
         \/ R.g.status # "playing"
         \/ ~ok
         \/ R.calls = R.steps + 1 /\ again(solveLogicalStep(cfg, R.g, b, NoMines))
      /\ (R.g.status = "playing" /\ ok /\ R.steps < maxSteps) => R.last.stalled

\* What one call of solveLogicalUntilStuck(maxSteps, b) can return in this
\* state.
UntilStuckRuns(maxSteps, b) ==
  {solveLogicalUntilStuck(cfg, ThisGame, maxSteps, b, placed) :
     placed \in Placements(solveLogicalUntilStuck(cfg, ThisGame, maxSteps, b, NoMines).initAt)}

\* C23: solveLogicalUntilStuck calls solveLogicalStep at most maxSteps times;
\* it returns when steps reached maxSteps, when the status is no longer
\* Playing, or at the first step that is a contradiction, incomplete, or opens
\* and marks nothing; steps is the number of calls that opened or marked a
\* cell; and a return with status Playing, complete, no contradiction and
\* steps < maxSteps carries a stalled result.
C23_UntilStuck ==
  \A maxSteps \in StepLimits, b \in GameBudgets :
    \A R \in UntilStuckRuns(maxSteps, b) : UntilStuckStops(R, maxSteps, b)

\* A run of at least two productive steps, which maxSteps = 1 cuts short
\* after one call with the game still Playing.
C23_Witness ==
  /\ status = "playing"
  /\ \E R \in UntilStuckRuns(DEFAULT_MAX_STEPS, Null) : R.steps >= 2
  /\ \E R \in UntilStuckRuns(1, Null) :
       R.steps = 1 /\ R.calls = 1 /\ R.g.status = "playing"

\* A run that ends Playing at a stalled second step after a productive first
\* (companion of C23).
UntilStuckStalls ==
  /\ status = "playing"
  /\ \E R \in UntilStuckRuns(DEFAULT_MAX_STEPS, Null) :
       R.steps = 1 /\ R.calls = 2 /\ R.g.status = "playing" /\ R.last.stalled

\* What one call of solveAutoWithGuesses(maxCycles, maxLogicalStepsPerCycle)
\* can return in this state.
AutoRuns(maxCycles, maxLogicalStepsPerCycle) ==
  {solveAutoWithGuesses(cfg, ThisGame, maxCycles, maxLogicalStepsPerCycle, Null, placed) :
     placed \in Placements(solveAutoWithGuesses(cfg, ThisGame, maxCycles,
                                                maxLogicalStepsPerCycle, Null,
                                                NoMines).initAt)}

\* What C24 says of the calls R.trace that a run R of solveAutoWithGuesses
\* made.
AutoOrdered(R, maxCycles) ==
  LET t == R.trace
      guesses == {i \in 1..Len(t) : t[i].kind = "guess"}
      runs == {i \in 1..Len(t) : t[i].kind = "run"}
      oks(e) == IF e.kind = "run"
                THEN e.status = "playing" /\ ~e.contradiction /\ e.complete
                ELSE e.guessed /\ e.status = "playing"
  IN  /\ \A i \in guesses :
           /\ i > 1
           /\ t[i - 1].kind = "run"
           /\ t[i - 1].stalled /\ t[i - 1].complete /\ ~t[i - 1].contradiction
           /\ t[i - 1].status = "playing"
      /\ Cardinality(runs) <= maxCycles
      /\ \A i \in 1..(Len(t) - 1) : oks(t[i])
      /\ R.neededGuesses = Cardinality({i \in guesses : t[i].openedCount >= 1})
      /\ R.neededGuesses = Cardinality({i \in guesses : t[i].guessed})

\* The limits of logical steps per cycle a caller of solveAutoWithGuesses
\* passes.
LogicalStepLimits == {1, DEFAULT_MAX_LOGICAL_STEPS}

\* C24: solveAutoWithGuesses guesses only immediately after a run-to-stuck
\* that ended stalled, complete and without contradiction with the status
\* still Playing, so at most once between two runs; it makes at most maxCycles
\* runs and no call after the first contradiction, incomplete result, game end
\* or failed guess; and neededGuesses is the number of guessEducated calls
\* that opened a cell.
C24_GuessOrdering ==
  \A maxCycles \in {0, 2} \cup CycleLimits, k \in LogicalStepLimits :
    \A R \in AutoRuns(maxCycles, k) : AutoOrdered(R, maxCycles)

\* A run of solveAutoWithGuesses that guessed, went on with the logic and
\* guessed again.
C24_Witness ==
  /\ status = "playing"
  /\ \E R \in AutoRuns(DEFAULT_MAX_CYCLES, DEFAULT_MAX_LOGICAL_STEPS) :
       /\ R.neededGuesses >= 2
       /\ Len(R.trace) >= 4

\* The clues guessEducated looks at: the opened neighbours of the hidden
\* unmarked cells of a Playing game.
GuessClues ==
  IF status # "playing" THEN {}
  ELSE UNION {{n \in Range(boardNeighbours(p[1], p[2], Rows, Cols)) : grid[n].opened} :
                p \in {q \in AllPos : hiddenUnmarked(ThisGame, q)}}

\* The hint of the clue n minus the sum of its known neighbours: the mine
\* counts of the opened ones and the markers of the marked ones.
Residual(n) ==
  LET nn == Range(boardNeighbours(n[1], n[2], Rows, Cols))
      known(q) == IF grid[q].opened THEN grid[q].mineCount ELSE grid[q].markerCount
      RECURSIVE sum(_)
      sum(S) == IF S = {} THEN 0 ELSE LET q == CHOOSE x \in S : TRUE IN known(q) + sum(S \ {q})
  IN  grid[n].hint - sum(nn)

\* C25 as stated: a clue whose residual is zero or negative contributes local
\* risk 0, with negativeMines on as well as off.
C25_ResidualClamp_AsStated ==
  \A n \in GuessClues :
    Residual(n) <= 0 => clueRisk(cfg, ThisGame, n).localRisk[1] = 0

\* C25: guessEducated clamps the residual of every clue with an unknown
\* neighbour into [minMarker * unknownCount, maxMarker * unknownCount] before
\* taking its absolute value: with negativeMines off a residual of zero or
\* less contributes local risk 0; with negativeMines on a negative residual r
\* contributes min(|r|, maxPerCell * unknownCount) / (maxPerCell *
\* unknownCount), which is positive, and only a zero residual contributes 0.
C25_ResidualClamp ==
  \A n \in GuessClues :
    LET r == clueRisk(cfg, ThisGame, n)
        cap == cfg.maxMinesPerCell * r.unknownCount
    IN  /\ r.unknownCount >= 1
        /\ r.remaining = Residual(n)
        /\ IF Residual(n) > 0 \/ cfg.negativeMines
           THEN FracEq(r.localRisk, <<Min2(Abs(Residual(n)), cap), cap>>)
           ELSE r.localRisk[1] = 0

\* A game with negativeMines on in which guessEducated looks at a clue of
\* negative residual.
C25_Witness ==
  /\ cfg.negativeMines
  /\ \E n \in GuessClues : Residual(n) < 0

\* The step leaves the status and every cell's opened flag and markerCount as
\* they were.
CellsAndStatusKept ==
  /\ status' = status
  /\ \A p \in AllPos : grid'[p].opened = grid[p].opened
  /\ \A p \in AllPos : grid'[p].markerCount = grid[p].markerCount

\* C28: once the status is Won or Lost, no step of the game (open,
\* cycleMarker, cycleMarkerDown, chordOpen, applyHint, giveUp, guessEducated,
\* solveLogicalStep, solveLogicalUntilStuck, solveAutoWithGuesses) changes a
\* cell's opened flag or markerCount, or the status.
C28_GameOverFrame ==
  [][(status \in {"won", "lost"}) => (CellsAndStatusKept)]_vars

\* Once the status is Won or Lost every operation but solveLogicalStep
\* returns the game as it was (companion of C28).
GameOverFrameButSolverStep ==
  status \in {"won", "lost"} =>
    /\ \A p \in ClickPos :
         /\ open(cfg, ThisGame, p[1], p[2], NoMines).g = ThisGame
         /\ cycleMarker(cfg, ThisGame, p[1], p[2]) = ThisGame
         /\ cycleMarkerDown(cfg, ThisGame, p[1], p[2]) = ThisGame
         /\ chordOpen(cfg, ThisGame, p[1], p[2], NoMines).g = ThisGame
         /\ applyHint(cfg, ThisGame, p[1], p[2], NoMines).g = ThisGame
    /\ giveUp(ThisGame) = ThisGame
    /\ guessEducated(cfg, ThisGame, NoMines).g = ThisGame
    /\ \A k \in StepLimits, b \in GameBudgets :
         solveLogicalUntilStuck(cfg, ThisGame, k, b, NoMines).g = ThisGame
    /\ \A k \in CycleLimits, n \in LogicalStepLimits :
         solveAutoWithGuesses(cfg, ThisGame, k, n, Null, NoMines).g = ThisGame

\* A finished game with a hidden unmarked cell (companion of C28).
GameOverWithHiddenCell ==
  /\ status \in {"won", "lost"}
  /\ \E p \in AllPos : hiddenUnmarked(ThisGame, p)

\* What open(p) can return in this state.
OpenRuns(p) ==
  {open(cfg, ThisGame, p[1], p[2], placed) :
     placed \in Placements(open(cfg, ThisGame, p[1], p[2], NoMines).initAt)}

\* The call that returned o opened nothing and changed no marker.
NothingOpened(o) ==
  /\ o.opened = <<>>
  /\ \A q \in AllPos : /\ o.g.grid[q].opened = grid[q].opened
                       /\ o.g.grid[q].markerCount = grid[q].markerCount

\* C29: in every reachable state, before the first click of a safeFirstClick
\* game included, open on a cell whose markerCount is non-zero returns no
\* opened cells and leaves every cell's opened flag and markerCount unchanged.
C29_MarkersProtect ==
  \A p \in AllPos :
    grid[p].markerCount # 0 => \A o \in OpenRuns(p) : NothingOpened(o)

\* The same once the board is placed (companion of C29).
MarkersProtectOnPlacedBoard ==
  BoardPlaced => \A p \in AllPos :
    grid[p].markerCount # 0 => \A o \in OpenRuns(p) : NothingOpened(o)

\* A Playing game on a placed board with a marked cell (companion of C29).
MarkedOnPlacedBoard ==
  /\ BoardPlaced /\ status = "playing"
  /\ \E p \in AllPos : grid[p].markerCount # 0

\* C30: after any sequence of open, cycleMarker, cycleMarkerDown, chordOpen,
\* applyHint, guessEducated and solveLogicalStep calls, no cell is both opened
\* and carrying a non-zero markerCount.
C30_OpenedXorMarked ==
  \A p \in AllPos : ~(grid[p].opened /\ grid[p].markerCount # 0)

\* A game with an opened cell and a marked cell in which applyHint and
\* solveLogicalStep have something to do.
C30_Witness ==
  /\ status = "playing"
  /\ \E p \in AllPos : grid[p].opened
  /\ \E p \in AllPos : grid[p].markerCount # 0
  /\ \E G2 \in HintResults : G2 # ThisGame
  /\ \E s \in StepRuns : s.g # ThisGame

====
